---- MODULE Spec2Model ----
(***************************************************************************)
(* State-machine model of the crawl orchestration of src/src/rest_api.py:  *)
(* the bounded breadth-first crawler crawl_recursive_internal_links, the   *)
(* batch crawler crawl_batch, and the /crawl/smart handler smart_crawl_url *)
(* that composes them with the freshness gate and the document store, the  *)
(* /crawl/single handler crawl_single_page, the /check-freshness handler   *)
(* check_url_freshness_endpoint, and the chunker smart_chunk_markdown.     *)
(*                                                                         *)
(* The page fetcher (crawl4ai's AsyncWebCrawler.arun / arun_many with a    *)
(* MemoryAdaptiveDispatcher) is the environment: it runs one task per URL  *)
(* it is given, admits a task only while fewer than max_session_permit     *)
(* tasks are running, and returns one result per URL in completion order.  *)
(* Its memory-pressure throttling only delays admission, which the model   *)
(* covers by leaving the moment of each admission unconstrained.           *)
(***************************************************************************)
EXTENDS Integers, Sequences, FiniteSets, TLC

\* ------------------------------------------------------------------ bounds
NumPages == 3          \* distinct pages of the crawled site
NumAnchored == 1       \* pages that are also addressed with a fragment
MaxLinks == 2          \* hrefs on one page
MaxSeeds == 2          \* URLs in start_urls
MaxDepthBound == 3     \* largest max_depth a request carries
MaxConcurrentBound == 2 \* largest max_concurrent a request carries
MaxSitemapLen == 2     \* <loc> entries of a sitemap
MaxFresh == 1          \* URLs the store holds a recent crawl of
SmartMaxDepth == 2     \* largest max_depth of a /crawl/smart request
Now == 100             \* the day of the request
FreshAge == 10         \* age in days of a recent crawl
StaleAge == 40         \* age in days of an old crawl
MaxLostWrites == 1     \* store writes of one request that fail silently
MaxTokens == 4         \* pieces of a text given to the chunker
MaxFairTokens == 3     \* pieces of a text when termination is checked
MaxSize == 10          \* largest chunk size given to the chunker
MaxUrlLen == 3         \* pieces of a URL string given to normalize_url
MaxIterations == 20    \* iterations of the chunker loop that are followed
MaxNegSize == 2        \* size of the most negative chunk size given to the chunker

\* ------------------------------------------------------------------ URLs
\* A URL string is kept as its components; the text of each component is a
\* sequence of tokens.  <<>> is the empty component.
Pages == 1..NumPages
Anchor == <<"sec">>

Url(path, frag) == [path |-> path, query |-> <<>>, frag |-> frag]

PagePath(p) == <<"page", ToString(p)>>

\* The URLs of the crawled site: every page, and the first NumAnchored pages
\* also with a fragment.
SiteUrls ==
    {Url(PagePath(p), <<>>) : p \in Pages}
        \cup {Url(PagePath(p), Anchor) : p \in 1..NumAnchored}

\* urllib.parse.urldefrag(url): the pair (url without fragment, fragment)
urldefrag(url) == <<[url EXCEPT !.frag = <<>>], url.frag>>

\* URLs a /crawl/smart request can name besides pages
SitemapUrl == Url(<<"sitemap", ".xml">>, <<>>)
TxtUrl == Url(<<"llms", ".txt">>, <<>>)

\* the text of a URL: path, then ?query and #fragment when present
UrlString(u) ==
    u.path \o (IF u.query = <<>> THEN <<>> ELSE <<"?">> \o u.query)
           \o (IF u.frag = <<>> THEN <<>> ELSE <<"#">> \o u.frag)

\* str.endswith
EndsWith(str, suffix) ==
    /\ Len(suffix) <= Len(str)
    /\ SubSeq(str, Len(str) - Len(suffix) + 1, Len(str)) = suffix

\* url.endswith('sitemap.xml') or 'sitemap' in urlparse(url).path
is_sitemap(u) ==
    \/ EndsWith(UrlString(u), <<"sitemap", ".xml">>)
    \/ \E k \in 1..Len(u.path) : u.path[k] = "sitemap"

\* url.endswith('.txt')
is_txt(u) == EndsWith(UrlString(u), <<".txt">>)

\* utils.normalize_url: the URL without its fragment
utils_normalize_url(u) == [u EXCEPT !.frag = <<>>]

\* a normalize_url that returns its argument
normalize_url_keep(url) == url

\* the local normalize_url of crawl_recursive_internal_links
normalize_url(url) == urldefrag(url)[1]

\* ------------------------------------------------------------------ helpers
Range(s) == {s[i] : i \in 1..Len(s)}

Min(a, b) == IF a <= b THEN a ELSE b

RECURSIVE SetToSeq(_)
\* a Python list built by iterating a set: some fixed order of its elements
SetToSeq(S) ==
    IF S = {} THEN <<>>
    ELSE LET x == CHOOSE y \in S : TRUE IN <<x>> \o SetToSeq(S \ {x})

\* [normalize_url(x) for x in s]
NormalizeAll(s) == [i \in 1..Len(s) |-> normalize_url(s[i])]

\* ------------------------------------------------------------------ smart_chunk_markdown
\* A text is a sequence of characters.
Whitespace == {" ", "\n"}

RECURSIVE lstrip(_)
lstrip(s) ==
    IF s # <<>> /\ Head(s) \in Whitespace THEN lstrip(Tail(s)) ELSE s

RECURSIVE rstrip(_)
rstrip(s) ==
    IF s # <<>> /\ s[Len(s)] \in Whitespace
    THEN rstrip(SubSeq(s, 1, Len(s) - 1)) ELSE s

\* str.strip()
strip(s) == rstrip(lstrip(s))

\* a slice that takes the character at b as well
Slice_inclusive(text, a, b) == SubSeq(text, a + 1, Min(b + 1, Len(text)))

\* the position a slice index i stands for in a string of n characters: a
\* negative index counts from the end, and every index is clipped to 0..n
SliceIndex(i, n) ==
    IF i < 0 THEN (IF i + n < 0 THEN 0 ELSE i + n) ELSE Min(i, n)

\* text[a:b]
Slice(text, a, b) ==
    SubSeq(text, SliceIndex(a, Len(text)) + 1, SliceIndex(b, Len(text)))

\* str.rfind(sub): the highest offset at which sub occurs, or -1
rfind(s, sub) ==
    LET at == {k \in 0..(Len(s) - Len(sub)) : SubSeq(s, k + 1, k + Len(sub)) = sub} IN
    IF at = {} THEN -1 ELSE CHOOSE k \in at : \A j \in at : j <= k

\* the backtick character
Backtick == "backtick"

Fence == <<Backtick, Backtick, Backtick>>
ParagraphBreak == <<"\n", "\n">>
SentenceBreak == <<".", " ">>

\* a threshold every offset passes
PastThreshold_any(x, chunk_size) == TRUE

\* a threshold that an offset of exactly 30% passes
PastThreshold_inclusive(x, chunk_size) == 10 * x >= 3 * chunk_size

\* x > chunk_size * 0.3
PastThreshold(x, chunk_size) == 10 * x > 3 * chunk_size

\* a window one character longer
WindowEnd_wide(start, chunk_size) == start + chunk_size + 1

\* end = start + chunk_size
WindowEnd(start, chunk_size) == start + chunk_size

\* a break that prefers the paragraph break to the code fence
BreakEnd_paragraph_first(text, start, chunk_size) ==
    LET chunk == Slice(text, start, WindowEnd(start, chunk_size))
        code_block == rfind(chunk, Fence)
        last_break == rfind(chunk, ParagraphBreak) IN
    IF last_break # -1 /\ PastThreshold(last_break, chunk_size)
    THEN start + last_break
    ELSE IF code_block # -1 /\ PastThreshold(code_block, chunk_size)
    THEN start + code_block
    ELSE WindowEnd(start, chunk_size)

\* the end of the chunk that starts at start, when the window does not reach
\* the end of the text: the last code fence if it lies past 30% of
\* chunk_size; else, if the window holds a paragraph break, the last one if
\* it lies past 30%; else, if the window holds a sentence break, the last
\* one if it lies past 30%; in every other case the window's end
BreakEnd(text, start, chunk_size) ==
    LET chunk == Slice(text, start, WindowEnd(start, chunk_size))
        code_block == rfind(chunk, Fence)
        last_break == rfind(chunk, ParagraphBreak)
        last_period == rfind(chunk, SentenceBreak) IN
    IF code_block # -1 /\ PastThreshold(code_block, chunk_size)
    THEN start + code_block
    ELSE IF last_break # -1
    THEN (IF PastThreshold(last_break, chunk_size)
          THEN start + last_break ELSE WindowEnd(start, chunk_size))
    ELSE IF last_period # -1
    THEN (IF PastThreshold(last_period, chunk_size)
          THEN start + last_period + 1 ELSE WindowEnd(start, chunk_size))
    ELSE WindowEnd(start, chunk_size)

RECURSIVE ChunkFrom(_, _, _)
\* the chunks appended from the iteration of the while loop that begins at
\* start on; chunk_size is positive
ChunkFrom(text, start, chunk_size) ==
    IF ~(start < Len(text)) THEN <<>>
    ELSE IF WindowEnd(start, chunk_size) >= Len(text)
    THEN <<strip(Slice(text, start, Len(text)))>>
    ELSE LET end == BreakEnd(text, start, chunk_size)
             chunk == strip(Slice(text, start, end)) IN
         (IF chunk # <<>> THEN <<chunk>> ELSE <<>>)
             \o ChunkFrom(text, end, chunk_size)

\* smart_chunk_markdown(text, chunk_size)
smart_chunk_markdown(text, chunk_size) == ChunkFrom(text, 0, chunk_size)

\* the default of the chunk_size parameter and of SmartCrawlRequest
DefaultChunkSize == 5000

\* ------------------------------------------------------------------ fetch results
NotFetched == [url |-> <<>>, success |-> FALSE, markdown |-> <<>>, links |-> {}, fetched |-> FALSE]

LinkSets == {L \in SUBSET SiteUrls : Cardinality(L) <= MaxLinks}

\* markdown of a page: empty, or a text of two characters
Markdowns == {<<>>, <<"m", "d">>}

\* What a fetch of one page can produce: success with content and any set of
\* links, or success without content, or failure.  The handler never reads
\* the links of a result without content or of a failure, so those carry
\* either no link or a link to every URL of the site.
PageOutcomes ==
    {o \in [success : BOOLEAN, markdown : Markdowns, links : LinkSets \cup {SiteUrls}] :
        IF o.success /\ o.markdown # <<>>
        THEN o.links \in LinkSets
        ELSE o.markdown = <<>> /\ o.links \in {{}, SiteUrls}}

VARIABLES
    \* arguments of crawl_recursive_internal_links
    start_urls, max_depth, max_concurrent,
    \* its locals
    pc, depth, visited, current_urls, urls_to_crawl, results, ridx,
    next_level_urls, results_all,
    \* the fetcher: every task handed to arun_many so far, and the site
    tasks, web,
    \* smart_crawl_url: the request, the handler's position and locals
    endpoint, app_context, request, spc, url, crawl_type, all_results,
    skipped_fresh_count, sidx, total_chunks, response,
    \* the freshness queries issued; the sitemap as fetched and resolved
    lookups, sitemap_urls, sitemap_fetch,
    \* the document store: last crawl time per URL; the store as the
    \* freshness gate saw it; the writes issued
    store, gate_store, writes

crawlVars == <<start_urls, max_depth, max_concurrent, pc, depth, visited,
               current_urls, urls_to_crawl, results, ridx, next_level_urls,
               results_all, tasks, web>>

smartVars == <<endpoint, app_context, request, spc, url, crawl_type,
               all_results, skipped_fresh_count, sidx, total_chunks, response,
               lookups, sitemap_urls, sitemap_fetch, store, gate_store, writes>>

\* smart_chunk_markdown followed step by step: its arguments text and
\* chunk_size, its locals start and chunks, the [start, end) of every
\* iteration so far, and its position
VARIABLES c_text, c_size, c_start, c_chunks, c_spans, c_pc

chunkVars == <<c_text, c_size, c_start, c_chunks, c_spans, c_pc>>

\* normalize_url applied to a URL string and to a URL that differs from it
\* in the fragment only, and applied again to its own result
VARIABLES n_url, n_sibling, n_once, n_sibling_once, n_twice, n_pc

normVars == <<n_url, n_sibling, n_once, n_sibling_once, n_twice, n_pc>>

\* get_api_key: the key of the environment, the credentials of the request,
\* the position of the dependency and the status it answers with
VARIABLES configured_key, credentials, auth_pc, status_code

authVars == <<configured_key, credentials, auth_pc, status_code>>

\* get_logs: its query parameters, its position and its answer
VARIABLES log_params, log_pc, log_response

logVars == <<log_params, log_pc, log_response>>

\* two requests for one URL served by one event loop: what each asks, where
\* each stands, what the store holds for the URL, and who fetched and wrote
VARIABLES r_request, r_pc, r_store, r_fetched, r_written

raceVars == <<r_request, r_pc, r_store, r_fetched, r_written>>

\* the variables of the parts followed on their own
auxVars == <<chunkVars, normVars, authVars, logVars, raceVars>>

vars == <<crawlVars, smartVars, auxVars>>

\* ------------------------------------------------------------------ fetcher
\* tasks admitted and not yet finished
Running == {i \in 1..Len(tasks) : tasks[i].st = "running"}

\* the default of the max_concurrent parameter
DefaultMaxConcurrent == 10

\* a dispatcher built without the caller's max_concurrent
max_session_permit_default == DefaultMaxConcurrent

\* a dispatcher built with one permit too few
max_session_permit_less == max_concurrent - 1

\* MemoryAdaptiveDispatcher(max_session_permit=max_concurrent)
max_session_permit == max_concurrent

NewTasks(urls, level) ==
    [i \in 1..Len(urls) |-> [url |-> urls[i], level |-> level, st |-> "queued"]]

\* the dispatcher admits a queued task while a session permit is free
StartFetch(i) ==
    /\ tasks[i].st = "queued"
    /\ Cardinality(Running) < max_session_permit
    /\ tasks' = [tasks EXCEPT ![i].st = "running"]
    /\ UNCHANGED <<start_urls, max_depth, max_concurrent, pc, depth, visited,
                   current_urls, urls_to_crawl, results, ridx,
                   next_level_urls, results_all, web>>
    /\ UNCHANGED <<smartVars, auxVars>>

\* a running fetch finishes: the page answers as it did before if it was
\* fetched before, else with any outcome; the result joins the result list
CompleteFetch(i) ==
    /\ tasks[i].st = "running"
    /\ LET page == normalize_url(tasks[i].url) IN
       \E o \in PageOutcomes :
         /\ web[page].fetched => o = [success |-> web[page].success,
                                      markdown |-> web[page].markdown,
                                      links |-> web[page].links]
         /\ LET r == [url |-> tasks[i].url, success |-> o.success,
                      markdown |-> o.markdown, links |-> o.links,
                      fetched |-> TRUE] IN
            /\ results' = Append(results, r)
            /\ web' = [web EXCEPT ![page] = r]
    /\ tasks' = [tasks EXCEPT ![i].st = "done"]
    /\ UNCHANGED <<start_urls, max_depth, max_concurrent, pc, depth, visited,
                   current_urls, urls_to_crawl, ridx, next_level_urls,
                   results_all>>
    /\ UNCHANGED <<smartVars, auxVars>>

\* an await that returns with the first finished task
BatchComplete_first == \E i \in 1..Len(tasks) : tasks[i].st = "done"

\* `await crawler.arun_many(...)` returns once every task has finished
BatchComplete == \A i \in 1..Len(tasks) : tasks[i].st = "done"

\* ------------------------------------------------------------------ crawl_recursive_internal_links
\* the list without the `not in visited` filter
UrlsToCrawl_unfiltered(cur, vis) == NormalizeAll(SetToSeq(cur))

\* urls_to_crawl = [normalize_url(url) for url in current_urls
\*                  if normalize_url(url) not in visited]
UrlsToCrawl(cur, vis) ==
    NormalizeAll(SetToSeq({u \in cur : normalize_url(u) \notin vis}))

\* the test without `and result.markdown`
Accepted_success(result) == result.success

\* `if result.success and result.markdown`
Accepted(result) == result.success /\ result.markdown # <<>>

\* links read under a key the result does not carry: .get(key, []) is []
NewLinks_none(result, vis) == {}

\* the links a result adds to next_level_urls, given visited
NewLinks(result, vis) ==
    {normalize_url(href) : href \in {h \in result.links : normalize_url(h) \notin vis}}

\* a loop that runs one level more: range(max_depth + 1)
InRange_inclusive(d, n) == d <= n

\* a loop without the depth bound: while True
InRange_unbounded(d, n) == TRUE

\* `for depth in range(max_depth)`: d is a value of the range
InRange(d, n) == 0 <= d /\ d < n

\* for depth in range(max_depth): range exhausted
LoopExit ==
    /\ pc = "loop"
    /\ ~InRange(depth, max_depth)
    /\ pc' = "done"
    /\ UNCHANGED <<start_urls, max_depth, max_concurrent, depth, visited,
                   current_urls, urls_to_crawl, results, ridx,
                   next_level_urls, results_all, tasks, web>>
    /\ UNCHANGED <<smartVars, auxVars>>

\* `if not urls_to_crawl: break`
LoopBreak ==
    /\ pc = "loop"
    /\ InRange(depth, max_depth)
    /\ UrlsToCrawl(current_urls, visited) = <<>>
    /\ urls_to_crawl' = <<>>
    /\ pc' = "done"
    /\ UNCHANGED <<start_urls, max_depth, max_concurrent, depth, visited,
                   current_urls, results, ridx, next_level_urls,
                   results_all, tasks, web>>
    /\ UNCHANGED <<smartVars, auxVars>>

\* results = await crawler.arun_many(urls=urls_to_crawl, ...): the call
LoopDispatch ==
    /\ pc = "loop"
    /\ InRange(depth, max_depth)
    /\ UrlsToCrawl(current_urls, visited) # <<>>
    /\ urls_to_crawl' = UrlsToCrawl(current_urls, visited)
    /\ tasks' = tasks \o NewTasks(urls_to_crawl', depth)
    /\ results' = <<>>
    /\ pc' = "fetching"
    /\ UNCHANGED <<start_urls, max_depth, max_concurrent, depth, visited,
                   current_urls, ridx, next_level_urls, results_all, web>>
    /\ UNCHANGED <<smartVars, auxVars>>

\* the await returns; next_level_urls = set(); the for loop starts
Join ==
    /\ pc = "fetching"
    /\ BatchComplete
    /\ next_level_urls' = {}
    /\ ridx' = 1
    /\ pc' = "process"
    /\ UNCHANGED <<start_urls, max_depth, max_concurrent, depth, visited,
                   current_urls, urls_to_crawl, results, results_all,
                   tasks, web>>
    /\ UNCHANGED <<smartVars, auxVars>>

\* one iteration of `for result in results`
ProcessResult ==
    /\ pc = "process"
    /\ ridx <= Len(results)
    /\ LET result == results[ridx]
           norm_url == normalize_url(result.url) IN
       /\ visited' = visited \cup {norm_url}
       /\ IF Accepted(result)
          THEN /\ results_all' = Append(results_all,
                                   [url |-> result.url, markdown |-> result.markdown])
               /\ next_level_urls' = next_level_urls \cup NewLinks(result, visited')
          ELSE UNCHANGED <<results_all, next_level_urls>>
    /\ ridx' = ridx + 1
    /\ UNCHANGED <<start_urls, max_depth, max_concurrent, pc, depth,
                   current_urls, urls_to_crawl, results, tasks, web>>
    /\ UNCHANGED <<smartVars, auxVars>>

\* current_urls = next_level_urls; the next value of depth
AdvanceLevel ==
    /\ pc = "process"
    /\ ridx > Len(results)
    /\ current_urls' = next_level_urls
    /\ depth' = depth + 1
    /\ pc' = "loop"
    /\ UNCHANGED <<start_urls, max_depth, max_concurrent, visited,
                   urls_to_crawl, results, ridx, next_level_urls,
                   results_all, tasks, web>>
    /\ UNCHANGED <<smartVars, auxVars>>

\* ------------------------------------------------------------------ document store
\* the store keeps, per URL, the day of its last crawl: <<day>>, or <<>>
NoRecord == <<>>

StoreKeys == SiteUrls \cup {TxtUrl}

\* the freshness window used when the caller gives none
DefaultFreshnessDays == 30

\* utils.check_url_freshness(client, url, freshness_days): the record kept
\* for the URL, and whether it is younger than the window
check_url_freshness(st, u, freshness_days) ==
    LET key == utils_normalize_url(u)
        rec == IF key \in DOMAIN st THEN st[key] ELSE NoRecord IN
    [is_fresh |-> rec # NoRecord /\ Now - rec[1] < freshness_days,
     last_crawled |-> rec]

\* utils.get_stale_urls(client, urls): the URLs that are not fresh
get_stale_urls(st, urls) ==
    SelectSeq(urls, LAMBDA u :
        ~check_url_freshness(st, u, DefaultFreshnessDays).is_fresh)

\* utils.add_documents_to_supabase for one page URL: the URL's documents
\* are replaced and dated now
add_documents_to_supabase(st, page_url) == [st EXCEPT ![page_url] = <<Now>>]

\* ------------------------------------------------------------------ smart_crawl_url
\* sitemap_urls[:50]
SitemapCap == 50

\* the list without the slice
Capped_all(urls) == urls

\* urls_to_crawl = sitemap_urls[:50]
Capped(urls) == SubSeq(urls, 1, Min(SitemapCap, Len(urls)))

\* a gate that lets every URL through
Gate_open(st, force_recrawl, urls) == urls

\* `if not force_recrawl: stale_urls = get_stale_urls(...)`: the URLs the
\* freshness gate lets through
Gate(st, force_recrawl, urls) ==
    IF force_recrawl THEN urls ELSE get_stale_urls(st, urls)

\* a gate that consults the store whatever the flag
GateQueries_always(force_recrawl, urls) == urls

\* the URLs the gate asks the store about: none under force_recrawl
GateQueries(force_recrawl, urls) == IF force_recrawl THEN <<>> ELSE urls

\* a count of the URLs let through instead of the URLs skipped
SkippedCount_stale(urls, stale_urls) == Len(stale_urls)

\* skipped_fresh_count = len(urls_to_crawl) - len(stale_urls)
SkippedCount(urls, stale_urls) == Len(urls) - Len(stale_urls)

\* a count of writes instead of chunks
AddChunks_one(total, chunks) == total + 1

\* total_chunks += len(chunks)
AddChunks(total, chunks) == total + Len(chunks)

\* what requests.get(sitemap_url) can do: raise (connection error,
\* timeout), answer with a status other than 200, answer 200 with a body
\* that is not XML, or answer 200 with a sitemap
SitemapFetches == {"raised", "not_200", "unparsable", "ok"}

\* requests.get is called outside the try block of parse_sitemap
parse_sitemap_raises(fetch) == fetch = "raised"

\* parse_sitemap when requests.get returns: the <loc> texts of a parsable
\* 200 answer, else the empty list
parse_sitemap(fetch, locs) == IF fetch = "ok" THEN locs ELSE <<>>

\* the <loc> lists of a sitemap: any short list of site URLs
SitemapLists == UNION {[1..n -> SiteUrls] : n \in 0..MaxSitemapLen}

\* a sitemap with one entry more than the cap: the first page SitemapCap
\* times, then the second page
LongSitemap ==
    [i \in 1..(SitemapCap + 1) |->
        IF i <= SitemapCap THEN Url(PagePath(1), <<>>) ELSE Url(PagePath(2), <<>>)]

\* a sitemap of three entries that name the first page
ScenarioSitemap ==
    <<Url(PagePath(1), <<>>), Url(PagePath(1), Anchor), Url(PagePath(1), <<>>)>>

\* The sitemaps a request can meet.  Those longer than MaxSitemapLen are
\* met where the store holds a recent crawl of each of their first
\* SitemapCap entries and the request does not force a recrawl, so that the
\* batch they lead to stays small.
SitemapOffers(st, force_recrawl) ==
    SitemapLists \cup
        {L \in {ScenarioSitemap, LongSitemap} :
            /\ ~force_recrawl
            /\ get_stale_urls(st, SubSeq(L, 1, Min(SitemapCap, Len(L)))) = <<>>}

\* what a call of add_documents_to_supabase can do: store the page, fail
\* and return without storing it, or fail and raise
WriteOutcomes == {"stored", "lost", "raised"}

\* the outcomes the next write can have after the writes ws: at most
\* MaxLostWrites writes of one request are lost
WriteOutcomesAfter(ws) ==
    IF Cardinality({k \in 1..Len(ws) : ws[k].outcome = "lost"}) < MaxLostWrites
    THEN WriteOutcomes ELSE WriteOutcomes \ {"lost"}

\* the store after a write of page_url with the given outcome
StoreAfterWrite(st, page_url, outcome) ==
    IF outcome = "stored" THEN add_documents_to_supabase(st, page_url) ELSE st

\* a response before any field is set: every Optional field is None
NoResponse ==
    [success |-> FALSE, crawl_type |-> "", pages_crawled |-> 0,
     chunks_stored |-> 0, skipped_fresh_urls |-> 0, content_length |-> 0,
     was_fresh |-> <<>>, is_fresh |-> FALSE, last_crawled |-> <<>>,
     error |-> ""]

\* `except Exception as e: return ...Response(success=False, error=str(e))`
Failure(err) == [NoResponse EXCEPT !.error = err]

\* the locals of crawl_recursive_internal_links at its entry
EnterCrawl(seeds) ==
    /\ start_urls' = seeds
    /\ pc' = "loop"
    /\ depth' = 0
    /\ visited' = {}
    /\ current_urls' = {normalize_url(u) : u \in seeds}
    /\ urls_to_crawl' = <<>>
    /\ results' = <<>>
    /\ ridx' = 1
    /\ next_level_urls' = {}
    /\ results_all' = <<>>

\* the handler found no application context: the HTTPException is caught
\* and reported
SmartUninitialised ==
    /\ spc = "start"
    /\ endpoint = "smart"
    /\ ~app_context
    /\ response' = Failure("not_initialized")
    /\ spc' = "returned"
    /\ UNCHANGED <<auxVars, crawlVars, endpoint, app_context, request, url, crawl_type,
                   all_results, skipped_fresh_count, sidx, total_chunks,
                   lookups, sitemap_urls, sitemap_fetch, store, gate_store,
                   writes>>

\* a dispatch that tests for a text file first
classify_txt_first(u) ==
    IF is_txt(u) THEN "txt_file"
    ELSE IF is_sitemap(u) THEN "sitemap"
    ELSE "webpage"

\* the branch smart_crawl_url takes for the normalized URL u, named by the
\* crawl_type it sets: if is_sitemap(url) ... elif is_txt(url) ... else ...
classify(u) ==
    IF is_sitemap(u) THEN "sitemap"
    ELSE IF is_txt(u) THEN "txt_file"
    ELSE "webpage"

\* is_sitemap(url) and requests.get raises in parse_sitemap: the exception
\* reaches the handler's except clause
SmartSitemapRaise ==
    /\ spc = "start"
    /\ endpoint = "smart"
    /\ app_context
    /\ LET u == utils_normalize_url(request.url) IN
       /\ classify(u) = "sitemap"
       /\ url' = u
    /\ \E fetch \in SitemapFetches :
         /\ parse_sitemap_raises(fetch)
         /\ sitemap_fetch' = fetch
    /\ crawl_type' = "sitemap"
    /\ response' = Failure("sitemap_fetch")
    /\ spc' = "returned"
    /\ UNCHANGED <<auxVars, crawlVars, endpoint, app_context, request, all_results,
                   skipped_fresh_count, sidx, total_chunks, lookups,
                   sitemap_urls, store, gate_store, writes>>

\* is_sitemap(url): parse the sitemap, cap, gate, and call crawl_batch
SmartSitemap ==
    /\ spc = "start"
    /\ endpoint = "smart"
    /\ app_context
    /\ LET u == utils_normalize_url(request.url) IN
       /\ classify(u) = "sitemap"
       /\ url' = u
    /\ crawl_type' = "sitemap"
    /\ gate_store' = store
    /\ \E fetch \in SitemapFetches, locs \in SitemapOffers(store, request.force_recrawl) :
         /\ ~parse_sitemap_raises(fetch)
         /\ fetch # "ok" => locs = <<>>
         /\ sitemap_fetch' = fetch
         /\ LET resolved == parse_sitemap(fetch, locs)
                capped == Capped(resolved)
                stale_urls == get_stale_urls(store, capped)
                to_crawl == Gate(store, request.force_recrawl, capped) IN
            /\ sitemap_urls' = resolved
            /\ lookups' = IF resolved # <<>>
                          THEN lookups \o GateQueries(request.force_recrawl, capped)
                          ELSE lookups
            /\ skipped_fresh_count' =
                  IF resolved # <<>> /\ ~request.force_recrawl
                  THEN SkippedCount(capped, stale_urls) ELSE 0
            /\ IF resolved # <<>> /\ to_crawl # <<>>
               THEN /\ urls_to_crawl' = to_crawl
                    /\ tasks' = tasks \o NewTasks(to_crawl, 0)
                    /\ results' = <<>>
                    /\ spc' = "crawl_batch"
                    /\ UNCHANGED all_results
               ELSE /\ all_results' = <<>>
                    /\ spc' = "store"
                    /\ UNCHANGED <<urls_to_crawl, tasks, results>>
    /\ UNCHANGED <<auxVars, start_urls, max_depth, max_concurrent, pc, depth, visited,
                   current_urls, ridx, next_level_urls, results_all, web,
                   endpoint, app_context, request, sidx, total_chunks,
                   response, store, writes>>

\* crawl_batch returns: the results with success and markdown
SmartBatchReturn ==
    /\ spc = "crawl_batch"
    /\ BatchComplete
    /\ all_results' =
          LET kept == SelectSeq(results, LAMBDA r : r.success /\ r.markdown # <<>>) IN
          [k \in 1..Len(kept) |-> [url |-> kept[k].url, markdown |-> kept[k].markdown]]
    /\ spc' = "store"
    /\ UNCHANGED <<auxVars, crawlVars, endpoint, app_context, request, url, crawl_type,
                   skipped_fresh_count, sidx, total_chunks, response, lookups,
                   sitemap_urls, sitemap_fetch, store, gate_store, writes>>

\* is_txt(url): check the one URL, and call crawl_markdown_file unless fresh
SmartTxt ==
    /\ spc = "start"
    /\ endpoint = "smart"
    /\ app_context
    /\ LET u == utils_normalize_url(request.url) IN
       /\ classify(u) = "txt_file"
       /\ url' = u
       /\ crawl_type' = "txt_file"
       /\ gate_store' = store
       /\ lookups' = IF request.force_recrawl THEN lookups ELSE Append(lookups, u)
       /\ IF ~request.force_recrawl
             /\ check_url_freshness(store, u, DefaultFreshnessDays).is_fresh
          THEN /\ skipped_fresh_count' = 1
               /\ all_results' = <<>>
               /\ spc' = "store"
               /\ UNCHANGED <<tasks, results>>
          ELSE /\ skipped_fresh_count' = 0
               /\ tasks' = tasks \o NewTasks(<<u>>, 0)
               /\ results' = <<>>
               /\ spc' = "crawl_markdown_file"
               /\ UNCHANGED all_results
    /\ UNCHANGED <<auxVars, start_urls, max_depth, max_concurrent, pc, depth, visited,
                   current_urls, urls_to_crawl, ridx, next_level_urls,
                   results_all, web, endpoint, app_context, request, sidx,
                   total_chunks, response, sitemap_urls, sitemap_fetch, store,
                   writes>>

\* crawl_markdown_file returns: the page if it has success and markdown
SmartTxtReturn ==
    /\ spc = "crawl_markdown_file"
    /\ BatchComplete
    /\ all_results' =
          IF results[1].success /\ results[1].markdown # <<>>
          THEN <<[url |-> url, markdown |-> results[1].markdown]>>
          ELSE <<>>
    /\ spc' = "store"
    /\ UNCHANGED <<auxVars, crawlVars, endpoint, app_context, request, url, crawl_type,
                   skipped_fresh_count, sidx, total_chunks, response, lookups,
                   sitemap_urls, sitemap_fetch, store, gate_store, writes>>

\* otherwise a web page: gate the start URL, and call
\* crawl_recursive_internal_links on it unless fresh
SmartPage ==
    /\ spc = "start"
    /\ endpoint = "smart"
    /\ app_context
    /\ LET u == utils_normalize_url(request.url)
           start == <<u>>
           stale_urls == get_stale_urls(store, start)
           to_crawl == Gate(store, request.force_recrawl, start) IN
       /\ classify(u) = "webpage"
       /\ url' = u
       /\ crawl_type' = "webpage"
       /\ gate_store' = store
       /\ lookups' = lookups \o GateQueries(request.force_recrawl, start)
       /\ skipped_fresh_count' =
             IF request.force_recrawl THEN 0 ELSE SkippedCount(start, stale_urls)
       /\ IF to_crawl # <<>>
          THEN /\ EnterCrawl(Range(to_crawl))
               /\ spc' = "crawl_recursive"
               /\ UNCHANGED all_results
          ELSE /\ all_results' = <<>>
               /\ spc' = "store"
               /\ UNCHANGED <<start_urls, pc, depth, visited, current_urls,
                              urls_to_crawl, results, ridx, next_level_urls,
                              results_all>>
    /\ UNCHANGED <<auxVars, max_depth, max_concurrent, tasks, web, endpoint,
                   app_context, request, sidx, total_chunks, response,
                   sitemap_urls, sitemap_fetch, store, writes>>

\* crawl_recursive_internal_links returns results_all
SmartPageReturn ==
    /\ spc = "crawl_recursive"
    /\ pc = "done"
    /\ all_results' = results_all
    /\ spc' = "store"
    /\ UNCHANGED <<auxVars, crawlVars, endpoint, app_context, request, url, crawl_type,
                   skipped_fresh_count, sidx, total_chunks, response, lookups,
                   sitemap_urls, sitemap_fetch, store, gate_store, writes>>

\* chunk numbers that start at zero
ChunkNumbers_zero_based(chunks) == [i \in 1..Len(chunks) |-> i - 1]

\* chunk_numbers = list(range(1, len(chunks) + 1))
ChunkNumbers(chunks) == [i \in 1..Len(chunks) |-> i]

\* the metadata built by `for i, chunk in enumerate(chunks)`, where i counts
\* from zero: "chunk_number": i + 1, "total_chunks": len(chunks)
Metadatas(chunks) ==
    [k \in 1..Len(chunks) |->
        LET i == k - 1 IN
        [chunk_number |-> i + 1, total_chunks |-> Len(chunks)]]

\* one iteration of `for page_result in all_results`: a page with markdown
\* is chunked and written to the store under its URL, and its chunks are
\* counted; a write that raises ends the handler in its except clause
SmartStore ==
    /\ spc = "store"
    /\ sidx <= Len(all_results)
    /\ LET page_result == all_results[sidx] IN
       IF page_result.markdown # <<>>
       THEN \E outcome \in WriteOutcomesAfter(writes) :
              LET chunks == smart_chunk_markdown(page_result.markdown,
                                                 request.chunk_size) IN
              /\ writes' = Append(writes, [url |-> page_result.url,
                                           document |-> page_result.markdown,
                                           chunk_numbers |-> ChunkNumbers(chunks),
                                           chunks |-> chunks,
                                           metadatas |-> Metadatas(chunks),
                                           outcome |-> outcome])
              /\ store' = StoreAfterWrite(store, page_result.url, outcome)
              /\ IF outcome = "raised"
                 THEN /\ response' = Failure("store_write")
                      /\ spc' = "returned"
                      /\ UNCHANGED <<sidx, total_chunks>>
                 ELSE /\ total_chunks' = AddChunks(total_chunks, chunks)
                      /\ sidx' = sidx + 1
                      /\ UNCHANGED <<spc, response>>
       ELSE /\ sidx' = sidx + 1
            /\ UNCHANGED <<store, writes, total_chunks, spc, response>>
    /\ UNCHANGED <<auxVars, crawlVars, endpoint, app_context, request, url, crawl_type,
                   all_results, skipped_fresh_count, lookups, sitemap_urls,
                   sitemap_fetch, gate_store>>

\* return SmartCrawlResponse(success=True, ...)
SmartReturn ==
    /\ spc = "store"
    /\ sidx > Len(all_results)
    /\ response' = [NoResponse EXCEPT !.success = TRUE,
                                      !.crawl_type = crawl_type,
                                      !.pages_crawled = Len(all_results),
                                      !.chunks_stored = total_chunks,
                                      !.skipped_fresh_urls = skipped_fresh_count]
    /\ spc' = "returned"
    /\ UNCHANGED <<auxVars, crawlVars, endpoint, app_context, request, url, crawl_type,
                   all_results, skipped_fresh_count, sidx, total_chunks,
                   lookups, sitemap_urls, sitemap_fetch, store, gate_store,
                   writes>>

\* ------------------------------------------------------------------ crawl_single_page
\* the handler found no application context
SingleUninitialised ==
    /\ spc = "start"
    /\ endpoint = "single"
    /\ ~app_context
    /\ response' = Failure("not_initialized")
    /\ spc' = "returned"
    /\ UNCHANGED <<auxVars, crawlVars, endpoint, app_context, request, url, crawl_type,
                   all_results, skipped_fresh_count, sidx, total_chunks,
                   lookups, sitemap_urls, sitemap_fetch, store, gate_store,
                   writes>>

\* an answer for a fresh URL that leaves out the stored timestamp
FreshResponse_no_timestamp(fresh) ==
    [NoResponse EXCEPT !.success = TRUE,
                       !.was_fresh = <<TRUE>>,
                       !.chunks_stored = 0,
                       !.content_length = 0]

\* CrawlSinglePageResponse(success=True, url=url, was_fresh=True,
\* last_crawled=..., chunks_stored=0, content_length=0)
FreshResponse(fresh) ==
    [NoResponse EXCEPT !.success = TRUE,
                       !.was_fresh = <<TRUE>>,
                       !.last_crawled = fresh.last_crawled,
                       !.chunks_stored = 0,
                       !.content_length = 0]

\* normalize the URL; unless force_recrawl, ask the store and answer from it
\* when the URL is fresh; otherwise call crawler.arun
SingleStart ==
    /\ spc = "start"
    /\ endpoint = "single"
    /\ app_context
    /\ LET u == utils_normalize_url(request.url)
           fresh == check_url_freshness(store, u, DefaultFreshnessDays) IN
       /\ url' = u
       /\ gate_store' = store
       /\ lookups' = IF request.force_recrawl THEN lookups ELSE Append(lookups, u)
       /\ IF ~request.force_recrawl /\ fresh.is_fresh
          THEN /\ response' = FreshResponse(fresh)
               /\ spc' = "returned"
               /\ UNCHANGED <<tasks, results>>
          ELSE /\ tasks' = tasks \o NewTasks(<<u>>, 0)
               /\ results' = <<>>
               /\ spc' = "single_fetch"
               /\ UNCHANGED response
    /\ UNCHANGED <<auxVars, start_urls, max_depth, max_concurrent, pc, depth, visited,
                   current_urls, urls_to_crawl, ridx, next_level_urls,
                   results_all, web, endpoint, app_context, request,
                   crawl_type, all_results, skipped_fresh_count, sidx,
                   total_chunks, sitemap_urls, sitemap_fetch, store, writes>>

\* crawler.arun returned: a failed fetch and an empty content are reported
\* as failures; otherwise the content (the markdown, no extraction strategy
\* being configured) is chunked and written under the URL
SingleFetched ==
    /\ spc = "single_fetch"
    /\ BatchComplete
    /\ LET result == results[1]
           content == result.markdown IN
       IF ~result.success
       THEN /\ response' = Failure("fetch_failed")
            /\ UNCHANGED <<store, writes>>
       ELSE IF content = <<>>
       THEN /\ response' = Failure("no_content")
            /\ UNCHANGED <<store, writes>>
       ELSE \E outcome \in WriteOutcomesAfter(writes) :
              LET chunks == smart_chunk_markdown(content, DefaultChunkSize) IN
              /\ writes' = Append(writes, [url |-> url, document |-> content,
                                           chunk_numbers |-> ChunkNumbers(chunks),
                                           chunks |-> chunks,
                                           metadatas |-> Metadatas(chunks),
                                           outcome |-> outcome])
              /\ store' = StoreAfterWrite(store, url, outcome)
              /\ response' =
                    IF outcome = "raised" THEN Failure("store_write")
                    ELSE [NoResponse EXCEPT !.success = TRUE,
                                            !.content_length = Len(content),
                                            !.chunks_stored = Len(chunks),
                                            !.was_fresh = <<FALSE>>,
                                            !.last_crawled = <<>>]
    /\ spc' = "returned"
    /\ UNCHANGED <<auxVars, crawlVars, endpoint, app_context, request, url, crawl_type,
                   all_results, skipped_fresh_count, sidx, total_chunks,
                   lookups, sitemap_urls, sitemap_fetch, gate_store>>

\* ------------------------------------------------------------------ check_url_freshness_endpoint
\* an endpoint that ignores the window of the request
FreshnessWindow_default(freshness_request) == DefaultFreshnessDays

\* freshness_days = freshness_request.freshness_days
FreshnessWindow(freshness_request) == freshness_request.freshness_days

\* the handler found no application context
FreshnessUninitialised ==
    /\ spc = "start"
    /\ endpoint = "check_freshness"
    /\ ~app_context
    /\ response' = Failure("not_initialized")
    /\ spc' = "returned"
    /\ UNCHANGED <<auxVars, crawlVars, endpoint, app_context, request, url, crawl_type,
                   all_results, skipped_fresh_count, sidx, total_chunks,
                   lookups, sitemap_urls, sitemap_fetch, store, gate_store,
                   writes>>

\* normalize the URL, ask the store with the window of the request, and
\* report the decision and the record
CheckFreshness ==
    /\ spc = "start"
    /\ endpoint = "check_freshness"
    /\ app_context
    /\ LET u == utils_normalize_url(request.url)
           decision == check_url_freshness(store, u, FreshnessWindow(request)) IN
       /\ url' = u
       /\ lookups' = Append(lookups, u)
       /\ response' = [NoResponse EXCEPT !.success = TRUE,
                                         !.is_fresh = decision.is_fresh,
                                         !.last_crawled = decision.last_crawled]
    /\ gate_store' = store
    /\ spc' = "returned"
    /\ UNCHANGED <<auxVars, crawlVars, endpoint, app_context, request, crawl_type,
                   all_results, skipped_fresh_count, sidx, total_chunks,
                   sitemap_urls, sitemap_fetch, store, writes>>

\* ------------------------------------------------------------------ the loop of smart_chunk_markdown
\* `while start < text_length` is false: return chunks
ChunkLoopExit ==
    /\ c_pc = "loop"
    /\ ~(c_start < Len(c_text))
    /\ c_pc' = "done"
    /\ UNCHANGED <<c_text, c_size, c_start, c_chunks, c_spans>>
    /\ UNCHANGED <<crawlVars, smartVars, normVars, authVars, logVars, raceVars>>

\* the window reaches the end of the text: the rest of the text is stripped
\* and appended, and the loop is left
ChunkLast ==
    /\ c_pc = "loop"
    /\ c_start < Len(c_text)
    /\ WindowEnd(c_start, c_size) >= Len(c_text)
    /\ c_chunks' = Append(c_chunks, strip(Slice(c_text, c_start, Len(c_text))))
    /\ c_spans' = Append(c_spans, <<c_start, Len(c_text)>>)
    /\ c_pc' = "done"
    /\ UNCHANGED <<c_text, c_size, c_start>>
    /\ UNCHANGED <<crawlVars, smartVars, normVars, authVars, logVars, raceVars>>

\* the window ends inside the text: the text up to the break is stripped
\* and appended unless empty, and the next iteration starts at the break;
\* followed for MaxIterations iterations
ChunkBreak ==
    /\ c_pc = "loop"
    /\ Len(c_spans) < MaxIterations
    /\ c_start < Len(c_text)
    /\ ~(WindowEnd(c_start, c_size) >= Len(c_text))
    /\ LET end == BreakEnd(c_text, c_start, c_size)
           chunk == strip(Slice(c_text, c_start, end)) IN
       /\ c_chunks' = IF chunk # <<>> THEN Append(c_chunks, chunk) ELSE c_chunks
       /\ c_spans' = Append(c_spans, <<c_start, end>>)
       /\ c_start' = end
    /\ UNCHANGED <<c_text, c_size, c_pc>>
    /\ UNCHANGED <<crawlVars, smartVars, normVars, authVars, logVars, raceVars>>

\* ------------------------------------------------------------------ the dispatch of smart_crawl_url
\* url = normalize_url(request.url), and the test that chooses the branch
\* and sets crawl_type
Classify ==
    /\ spc = "start"
    /\ endpoint = "smart"
    /\ app_context
    /\ url' = utils_normalize_url(request.url)
    /\ crawl_type' = classify(utils_normalize_url(request.url))
    /\ spc' = "classified"
    /\ UNCHANGED <<crawlVars, auxVars, endpoint, app_context, request,
                   all_results, skipped_fresh_count, sidx, total_chunks,
                   response, lookups, sitemap_urls, sitemap_fetch, store,
                   gate_store, writes>>

\* ------------------------------------------------------------------ urldefrag on URL strings
\* A URL string is a sequence of pieces: names, and the delimiters ? and #.
\* the offset of the first piece equal to c, or -1
find(s, c) ==
    LET at == {k \in 1..Len(s) : s[k] = c} IN
    IF at = {} THEN -1 ELSE (CHOOSE k \in at : \A j \in at : k <= j) - 1

\* urlunparse of the parts urlparse found before the fragment: the query is
\* written after a ? only if it is not empty, so a ? that ends the string
\* and opens an empty query is not written back
urlunparse(before) ==
    LET q == find(before, "?") IN
    IF q # -1 /\ q = Len(before) - 1 THEN SubSeq(before, 1, q) ELSE before

\* urllib.parse.urldefrag(url): a string without # is returned as it is;
\* otherwise the string is parsed, the fragment being what follows the
\* first #, and put together again without the fragment
urldefrag_string(s) ==
    LET h == find(s, "#") IN
    IF h = -1 THEN <<s, <<>>>>
    ELSE <<urlunparse(SubSeq(s, 1, h)), SubSeq(s, h + 2, Len(s))>>

\* def normalize_url(url): return urldefrag(url)[0]
normalize_url_string(s) == urldefrag_string(s)[1]

\* normalize_url(url) for the URL and for its sibling
NormalizeOnce ==
    /\ n_pc = "start"
    /\ n_once' = normalize_url_string(n_url)
    /\ n_sibling_once' = normalize_url_string(n_sibling)
    /\ n_pc' = "once"
    /\ UNCHANGED <<n_url, n_sibling, n_twice>>
    /\ UNCHANGED <<crawlVars, smartVars, chunkVars, authVars, logVars, raceVars>>

\* normalize_url applied to a normalized URL, as the list comprehension of
\* urls_to_crawl does to the members of current_urls
NormalizeTwice ==
    /\ n_pc = "once"
    /\ n_twice' = normalize_url_string(n_once)
    /\ n_pc' = "twice"
    /\ UNCHANGED <<n_url, n_sibling, n_once, n_sibling_once>>
    /\ UNCHANGED <<crawlVars, smartVars, chunkVars, authVars, logVars, raceVars>>

\* ------------------------------------------------------------------ get_api_key
\* os.getenv("CRAWL4AI_API_KEY") when the variable is not set
NoKey == ""

\* credentials is None: the request has no Authorization header with a
\* bearer token
NoCredentials == ""

\* utils.validate_api_key(key): the key is the configured one; every key
\* is valid when none is configured
utils_validate_api_key(key, configured) ==
    IF configured = NoKey THEN TRUE ELSE key = configured

\* a dependency that only asks for the header
Rejects_header_only(configured, creds) ==
    creds = NoCredentials /\ configured # NoKey

\* get_api_key raises HTTPException(status_code=401): no credentials
\* although a key is configured, or credentials that do not validate
Rejects(configured, creds) ==
    IF creds = NoCredentials
    THEN configured # NoKey
    ELSE ~utils_validate_api_key(creds, configured)

\* the endpoints declared with api_key: str = Depends(get_api_key)
Protected(e) ==
    e \in {"sources", "single", "smart", "query_rag", "check_freshness"}

\* the dependency raises: the framework answers 401 and the handler is not
\* called
AuthReject ==
    /\ auth_pc = "pending"
    /\ Protected(endpoint)
    /\ Rejects(configured_key, credentials)
    /\ auth_pc' = "rejected"
    /\ status_code' = "401"
    /\ UNCHANGED <<configured_key, credentials>>
    /\ UNCHANGED <<crawlVars, smartVars, chunkVars, normVars, logVars, raceVars>>

\* the dependency returns: the handler is called
AuthPass ==
    /\ auth_pc = "pending"
    /\ Protected(endpoint)
    /\ ~Rejects(configured_key, credentials)
    /\ auth_pc' = "passed"
    /\ UNCHANGED <<configured_key, credentials, status_code>>
    /\ UNCHANGED <<crawlVars, smartVars, chunkVars, normVars, logVars, raceVars>>

\* health_check, declared without the dependency: it answers whatever the
\* request carries
Health ==
    /\ endpoint = "health"
    /\ spc = "start"
    /\ status_code' = "200"
    /\ spc' = "returned"
    /\ UNCHANGED <<configured_key, credentials, auth_pc>>
    /\ UNCHANGED <<crawlVars, chunkVars, normVars, logVars, raceVars, endpoint,
                   app_context, request, url, crawl_type, all_results,
                   skipped_fresh_count, sidx, total_chunks, response, lookups,
                   sitemap_urls, sitemap_fetch, store, gate_store, writes>>

\* get_available_sources and perform_rag_query: without the application
\* context a failure is answered; otherwise the store is read and the
\* answer reports success
StoreQuery ==
    /\ endpoint \in {"sources", "query_rag"}
    /\ spc = "start"
    /\ response' = IF app_context THEN [NoResponse EXCEPT !.success = TRUE]
                   ELSE Failure("not_initialized")
    /\ spc' = "returned"
    /\ UNCHANGED <<crawlVars, auxVars, endpoint, app_context, request, url,
                   crawl_type, all_results, skipped_fresh_count, sidx,
                   total_chunks, lookups, sitemap_urls, sitemap_fetch, store,
                   gate_store, writes>>

\* ------------------------------------------------------------------ get_logs
\* the names the module binds from the datetime module:
\* `from datetime import datetime`
DatetimeNames == {"datetime"}

\* Times are minutes relative to now; a datetime is aware if it carries a
\* UTC offset, naive if not.
\* datetime.utcnow()
UtcNow == [t |-> 0, aware |-> FALSE]

\* d - timedelta(minutes=m)
MinutesBefore(d, m) == [d EXCEPT !.t = d.t - m]

\* datetime.fromisoformat(s.replace("Z", "+00:00")) of a timestamp written
\* as isoformat() + "Z"
FromIsoZ(t) == [t |-> t, aware |-> TRUE]

\* an ordering comparison of a naive with an aware datetime raises TypeError
CompareRaises(a, b) == a.aware # b.aware

\* sample_logs, newest first: minutes before now, level, endpoint (<<>> for
\* None)
SampleLogs ==
    <<[age |-> 2, level |-> "INFO", endpoint |-> <<"/", "crawl", "/", "single">>],
      [age |-> 3, level |-> "INFO", endpoint |-> <<"/", "crawl", "/", "single">>],
      [age |-> 4, level |-> "INFO", endpoint |-> <<"/", "crawl", "/", "single">>],
      [age |-> 8, level |-> "INFO", endpoint |-> <<"/", "health">>],
      [age |-> 12, level |-> "INFO", endpoint |-> <<"/", "crawl", "/", "single">>],
      [age |-> 15, level |-> "INFO", endpoint |-> <<"/", "query", "/", "rag">>],
      [age |-> 20, level |-> "INFO", endpoint |-> <<"/", "recent-crawls">>],
      [age |-> 25, level |-> "WARNING", endpoint |-> <<"/", "check-freshness">>],
      [age |-> 30, level |-> "INFO", endpoint |-> <<>>]>>

\* level_priority.get(level, 0)
level_priority(level) ==
    IF level = "INFO" THEN 1
    ELSE IF level = "WARNING" THEN 2
    ELSE IF level = "ERROR" THEN 3
    ELSE 0

\* `sub in s` for strings
Contains(s, sub) ==
    \E k \in 0..(Len(s) - Len(sub)) : SubSeq(s, k + 1, k + Len(sub)) = sub

\* since is None
NoSince == <<>>

\* the query parameters when get_logs is not called
NoLogParams ==
    [limit |-> 100, minutes |-> 60, level |-> "", endpoint |-> <<>>,
     since |-> NoSince]

NoLogResponse == [success |-> FALSE, logs |-> <<>>, count |-> 0, error |-> ""]

\* the filters of the loop body for one log, after the comparison with
\* start_time went through
PassesFilters(log, p) ==
    /\ ~(p.level # "" /\ p.level # "all"
           /\ level_priority(log.level) < level_priority(p.level))
    /\ ~(p.endpoint # <<>>
           /\ (log.endpoint = <<>> \/ ~Contains(log.endpoint, p.endpoint)))
    /\ ~(p.since # NoSince /\ -log.age <= p.since[1])

RECURSIVE SortNewestFirst(_)
\* filtered_logs.sort(key=lambda x: x["timestamp"], reverse=True)
SortNewestFirst(logs) ==
    IF logs = <<>> THEN <<>>
    ELSE LET k == CHOOSE i \in 1..Len(logs) :
                      \A j \in 1..Len(logs) : logs[i].age <= logs[j].age IN
         <<logs[k]>> \o SortNewestFirst(SubSeq(logs, 1, k - 1)
                                            \o SubSeq(logs, k + 1, Len(logs)))

\* the body of the try block: the name timedelta is looked up first and is
\* not bound in the module; were it bound, the first iteration would compare
\* the aware log_time with the naive start_time
get_logs_try(p) ==
    IF "timedelta" \notin DatetimeNames
    THEN [raised |-> "NameError", logs |-> <<>>]
    ELSE LET start_time == MinutesBefore(UtcNow, p.minutes) IN
         IF SampleLogs # <<>>
               /\ CompareRaises(FromIsoZ(-SampleLogs[1].age), start_time)
         THEN [raised |-> "TypeError", logs |-> <<>>]
         ELSE LET filtered_logs ==
                      SelectSeq(SampleLogs, LAMBDA log :
                          /\ ~(-log.age < start_time.t)
                          /\ PassesFilters(log, p))
                  sorted == SortNewestFirst(filtered_logs) IN
              [raised |-> "",
               logs |-> SubSeq(sorted, 1, Min(p.limit, Len(sorted)))]

\* get_logs: the result of the try block, or the answer of the except
\* clause: success False, the error text, no logs
GetLogs ==
    /\ log_pc = "start"
    /\ LET r == get_logs_try(log_params) IN
       log_response' =
           IF r.raised # ""
           THEN [success |-> FALSE, logs |-> <<>>, count |-> 0, error |-> r.raised]
           ELSE [success |-> TRUE, logs |-> r.logs, count |-> Len(r.logs),
                 error |-> ""]
    /\ log_pc' = "returned"
    /\ UNCHANGED log_params
    /\ UNCHANGED <<crawlVars, smartVars, chunkVars, normVars, authVars, raceVars>>

\* ------------------------------------------------------------------ two concurrent requests
\* Two handlers run as coroutines of one event loop and hand over control at
\* an await only. crawl_single_page and smart_crawl_url (page seed) have the
\* same shape: the freshness check and what follows it up to `await
\* crawler.arun` / `await crawl_recursive_internal_links` run in one piece,
\* and so does what follows the await, the store write included.

\* the URL both requests name
RaceUrl == Url(PagePath(1), <<>>)

\* request i checks the freshness of its URL (check_url_freshness in
\* crawl_single_page, get_stale_urls in smart_crawl_url) and answers from the
\* store or starts the fetch; no lock is taken and nothing records that a
\* fetch is under way
RaceCheck(i) ==
    /\ r_pc[i] = "start"
    /\ LET is_fresh ==
               IF r_request[i].kind = "single"
               THEN check_url_freshness(r_store, RaceUrl, DefaultFreshnessDays).is_fresh
               ELSE get_stale_urls(r_store, <<RaceUrl>>) = <<>> IN
       r_pc' = [r_pc EXCEPT ![i] =
                   IF ~r_request[i].force_recrawl /\ is_fresh
                   THEN "returned_fresh" ELSE "fetching"]
    /\ UNCHANGED <<r_request, r_store, r_fetched, r_written>>
    /\ UNCHANGED <<crawlVars, smartVars, chunkVars, normVars, authVars, logVars>>

\* the fetch of request i returns: a failed fetch is answered without a
\* write, a successful one is chunked, written and answered
RaceFetched(i) ==
    /\ r_pc[i] = "fetching"
    /\ r_fetched' = r_fetched \cup {i}
    /\ \E ok \in BOOLEAN :
          IF ok
          THEN /\ r_store' = add_documents_to_supabase(r_store, RaceUrl)
               /\ r_written' = Append(r_written, i)
               /\ r_pc' = [r_pc EXCEPT ![i] = "returned"]
          ELSE /\ r_pc' = [r_pc EXCEPT ![i] = "failed"]
               /\ UNCHANGED <<r_store, r_written>>
    /\ UNCHANGED r_request
    /\ UNCHANGED <<crawlVars, smartVars, chunkVars, normVars, authVars, logVars>>

\* ------------------------------------------------------------------ specifications
EmptyStore == [k \in StoreKeys |-> NoRecord]

\* no fetch has been made
FetcherIdle ==
    /\ tasks = <<>>
    /\ web = [u \in {normalize_url(x) : x \in SiteUrls \cup {TxtUrl}} |-> NotFetched]

\* smart_chunk_markdown is not being followed
ChunkerIdle ==
    /\ c_text = <<>>
    /\ c_size = DefaultChunkSize
    /\ c_start = 0
    /\ c_chunks = <<>>
    /\ c_spans = <<>>
    /\ c_pc = "idle"

\* normalize_url is not being followed
NormIdle ==
    /\ n_url = <<>>
    /\ n_sibling = <<>>
    /\ n_once = <<>>
    /\ n_sibling_once = <<>>
    /\ n_twice = <<>>
    /\ n_pc = "idle"

\* the request passed get_api_key: no key is configured and none was sent
AuthIdle ==
    /\ configured_key = NoKey
    /\ credentials = NoCredentials
    /\ auth_pc = "passed"
    /\ status_code = "none"

\* get_logs is not being followed
LogsIdle ==
    /\ log_params = NoLogParams
    /\ log_pc = "idle"
    /\ log_response = NoLogResponse

\* no pair of concurrent requests is being followed
RaceIdle ==
    /\ r_request = <<>>
    /\ r_pc = <<>>
    /\ r_store = EmptyStore
    /\ r_fetched = {}
    /\ r_written = <<>>

\* no request is being handled
HandlerIdle ==
    /\ endpoint = "none"
    /\ app_context = TRUE
    /\ request = [url |-> TxtUrl, force_recrawl |-> FALSE,
                  chunk_size |-> DefaultChunkSize,
                  freshness_days |-> DefaultFreshnessDays]
    /\ spc = "idle"
    /\ url = TxtUrl
    /\ crawl_type = ""
    /\ all_results = <<>>
    /\ skipped_fresh_count = 0
    /\ sidx = 1
    /\ total_chunks = 0
    /\ response = NoResponse
    /\ lookups = <<>>
    /\ sitemap_urls = <<>>
    /\ sitemap_fetch = "none"
    /\ store = EmptyStore
    /\ gate_store = EmptyStore
    /\ writes = <<>>
    /\ ChunkerIdle

\* state at entry of crawl_recursive_internal_links(crawler, seeds, d, c)
CrawlEntry(seeds, d, c) ==
    /\ start_urls = seeds
    /\ max_depth = d
    /\ max_concurrent = c
    /\ pc = "loop"
    /\ depth = 0
    /\ visited = {}
    /\ current_urls = {normalize_url(u) : u \in seeds}
    /\ urls_to_crawl = <<>>
    /\ results = <<>>
    /\ ridx = 1
    /\ next_level_urls = {}
    /\ results_all = <<>>

SeedSets == {S \in SUBSET SiteUrls : Cardinality(S) <= MaxSeeds}

\* a call of crawl_recursive_internal_links with any seeds, max_depth and
\* max_concurrent
Init ==
    /\ \E seeds \in SeedSets, d \in 0..MaxDepthBound, c \in 1..MaxConcurrentBound :
          CrawlEntry(seeds, d, c)
    /\ FetcherIdle
    /\ HandlerIdle
    /\ NormIdle
    /\ AuthIdle
    /\ LogsIdle
    /\ RaceIdle

Fetcher == \E i \in 1..Len(tasks) : StartFetch(i) \/ CompleteFetch(i)

Next ==
    \/ LoopExit
    \/ LoopBreak
    \/ LoopDispatch
    \/ Fetcher
    \/ Join
    \/ ProcessResult
    \/ AdvanceLevel

\* the URLs a /crawl/smart request names: the sitemap, the text file with
\* or without a fragment, and the first page (the pages are interchangeable)
RequestUrls ==
    {SitemapUrl, TxtUrl, [TxtUrl EXCEPT !.frag = Anchor], Url(PagePath(1), <<>>)}

\* the stores a request can meet: at most MaxFresh URLs crawled FreshAge days
\* ago; the other URLs either all crawled StaleAge days ago or never
StoreInits ==
    {[k \in StoreKeys |->
         IF k \in F THEN <<Now - FreshAge>>
         ELSE IF old /\ k = utils_normalize_url(k) THEN <<Now - StaleAge>>
         ELSE NoRecord] :
       F \in {G \in SUBSET {utils_normalize_url(k) : k \in StoreKeys} :
                 Cardinality(G) <= MaxFresh},
       old \in BOOLEAN}

\* SmartCrawlRequest.max_depth when the request gives none
DefaultMaxDepth == 3

\* the chunk sizes a /crawl/smart request carries: one character, or the
\* default
ChunkSizes == {1, DefaultChunkSize}

\* the /crawl/smart requests: the text file is asked for with either chunk
\* size, the sitemap and the page with the chunk size of one character
SmartRequests ==
    {r \in [url : RequestUrls, force_recrawl : BOOLEAN, chunk_size : ChunkSizes,
            freshness_days : {DefaultFreshnessDays}] :
        r.chunk_size = DefaultChunkSize => is_txt(utils_normalize_url(r.url))}

\* the URLs a /crawl/single or /check-freshness request names: the first
\* page, with or without a fragment
SingleRequestUrls == {Url(PagePath(1), <<>>), Url(PagePath(1), Anchor)}

\* the /crawl/single requests
SingleRequests ==
    [url : SingleRequestUrls, force_recrawl : BOOLEAN,
     chunk_size : {DefaultChunkSize}, freshness_days : {DefaultFreshnessDays}]

\* the windows a /check-freshness request carries: the default, the ages
\* the store holds, and a day more than the larger age
FreshnessWindows == {FreshAge, DefaultFreshnessDays, StaleAge, StaleAge + 1}

\* the /check-freshness requests
FreshnessRequests ==
    [url : SingleRequestUrls, force_recrawl : {FALSE},
     chunk_size : {DefaultChunkSize}, freshness_days : FreshnessWindows]

\* a request arrives at a handler: the handler's locals and the crawler's
\* are unset, the store is any store, nothing was fetched
RequestEntry ==
    /\ app_context \in BOOLEAN
    /\ store \in StoreInits
    /\ gate_store = store
    /\ spc = "start"
    /\ url = request.url
    /\ crawl_type = "webpage"
    /\ all_results = <<>>
    /\ skipped_fresh_count = 0
    /\ sidx = 1
    /\ total_chunks = 0
    /\ response = NoResponse
    /\ lookups = <<>>
    /\ sitemap_urls = <<>>
    /\ sitemap_fetch = "none"
    /\ writes = <<>>
    /\ start_urls = {}
    /\ pc = "idle"
    /\ depth = 0
    /\ visited = {}
    /\ current_urls = {}
    /\ urls_to_crawl = <<>>
    /\ results = <<>>
    /\ ridx = 1
    /\ next_level_urls = {}
    /\ results_all = <<>>
    /\ FetcherIdle
    /\ ChunkerIdle
    /\ NormIdle
    /\ LogsIdle
    /\ RaceIdle

\* a /crawl/smart request arrives; max_depth is read for a web page only,
\* so the other requests carry its default
SmartInit ==
    /\ endpoint = "smart"
    /\ request \in SmartRequests
    /\ max_depth \in IF classify(utils_normalize_url(request.url)) = "webpage"
                     THEN 0..SmartMaxDepth ELSE {DefaultMaxDepth}
    /\ max_concurrent \in 1..MaxConcurrentBound
    /\ RequestEntry
    /\ AuthIdle

SmartNext ==
    \/ SmartUninitialised
    \/ SmartSitemapRaise
    \/ SmartSitemap
    \/ SmartBatchReturn
    \/ SmartTxt
    \/ SmartTxtReturn
    \/ SmartPage
    \/ SmartPageReturn
    \/ SmartStore
    \/ SmartReturn
    \/ Next

SmartSpec == SmartInit /\ [][SmartNext]_vars

\* a /crawl/single or /check-freshness request arrives; neither reads
\* max_depth or max_concurrent
OtherInit ==
    /\ \/ endpoint = "single" /\ request \in SingleRequests
       \/ endpoint = "check_freshness" /\ request \in FreshnessRequests
    /\ max_depth = DefaultMaxDepth
    /\ max_concurrent = DefaultMaxConcurrent
    /\ RequestEntry
    /\ AuthIdle

\* the handlers of /crawl/single and /check-freshness, and the fetcher
OtherNext ==
    \/ SingleUninitialised
    \/ SingleStart
    \/ SingleFetched
    \/ FreshnessUninitialised
    \/ CheckFreshness
    \/ Fetcher

OtherSpec == OtherInit /\ [][OtherNext]_vars

\* a request arrives at one of the three endpoints
ApiInit == SmartInit \/ OtherInit

ApiNext ==
    \/ SingleUninitialised
    \/ SingleStart
    \/ SingleFetched
    \/ FreshnessUninitialised
    \/ CheckFreshness
    \/ SmartNext

ApiSpec == ApiInit /\ [][ApiNext]_vars

Spec == Init /\ [][Next]_vars

\* Every dispatched batch eventually completes and the crawler coroutine is
\* eventually scheduled: a step that stays possible is eventually taken.
FairSpec == Spec /\ WF_vars(Next)

\* the pieces a text is made of: a letter, a word, a space, a newline, a
\* code fence, a paragraph break, a sentence break
TextTokens ==
    {<<"a">>, <<"w", "o", "r", "d">>, <<" ">>, <<"\n">>, Fence, ParagraphBreak,
     SentenceBreak}

RECURSIVE TextsOf(_)
\* the texts of n pieces
TextsOf(n) ==
    IF n = 0 THEN {<<>>}
    ELSE {t \o p : t \in TextsOf(n - 1), p \in TextTokens}

\* the texts of at most MaxTokens pieces
Texts == UNION {TextsOf(n) : n \in 0..MaxTokens}

\* the positive chunk sizes smart_chunk_markdown is called with
PositiveSizes == 1..MaxSize

\* the texts of at most MaxFairTokens pieces
ShortTexts == UNION {TextsOf(n) : n \in 0..MaxFairTokens}

\* smart_chunk_markdown(text, chunk_size) is entered with one of the texts
\* and any positive chunk size: text_length = len(text), start = 0,
\* chunks = []
ChunkEntry(texts) ==
    /\ c_text \in texts
    /\ c_size \in PositiveSizes
    /\ c_start = 0
    /\ c_chunks = <<>>
    /\ c_spans = <<>>
    /\ c_pc = "loop"
    /\ start_urls = {}
    /\ max_depth = DefaultMaxDepth
    /\ max_concurrent = DefaultMaxConcurrent
    /\ pc = "idle"
    /\ depth = 0
    /\ visited = {}
    /\ current_urls = {}
    /\ urls_to_crawl = <<>>
    /\ results = <<>>
    /\ ridx = 1
    /\ next_level_urls = {}
    /\ results_all = <<>>
    /\ FetcherIdle
    /\ endpoint = "none"
    /\ app_context = TRUE
    /\ request = [url |-> TxtUrl, force_recrawl |-> FALSE,
                  chunk_size |-> DefaultChunkSize,
                  freshness_days |-> DefaultFreshnessDays]
    /\ spc = "idle"
    /\ url = TxtUrl
    /\ crawl_type = ""
    /\ all_results = <<>>
    /\ skipped_fresh_count = 0
    /\ sidx = 1
    /\ total_chunks = 0
    /\ response = NoResponse
    /\ lookups = <<>>
    /\ sitemap_urls = <<>>
    /\ sitemap_fetch = "none"
    /\ store = EmptyStore
    /\ gate_store = EmptyStore
    /\ writes = <<>>
    /\ NormIdle
    /\ AuthIdle
    /\ LogsIdle
    /\ RaceIdle

ChunkInit == ChunkEntry(Texts)

ChunkNext ==
    \/ ChunkLoopExit
    \/ ChunkLast
    \/ ChunkBreak

ChunkSpec == ChunkInit /\ [][ChunkNext]_vars

FairChunkInit == ChunkEntry(ShortTexts)

\* the loop is a sequential program: its next iteration is always taken
FairChunkSpec == FairChunkInit /\ [][ChunkNext]_vars /\ WF_vars(ChunkNext)

\* the pieces of the URLs that are classified
UrlTokens == {"page", "sitemap", ".xml", ".txt"}

\* the paths of at most two pieces
UrlPaths ==
    {<<>>} \cup {<<a>> : a \in UrlTokens} \cup {<<a, b>> : a, b \in UrlTokens}

\* the query strings and the fragments: none, or one that ends like a
\* sitemap or like a text file
UrlTails == {<<>>, <<"sitemap", ".xml">>, <<"sitemap">>, <<".txt">>}

\* the URLs a request can name
ClassifyUrls ==
    {[path |-> p, query |-> q, frag |-> f] :
        p \in UrlPaths, q \in UrlTails, f \in UrlTails}

\* a /crawl/smart request with any URL arrives at an initialised server
ClassifyInit ==
    /\ endpoint = "smart"
    /\ request \in [url : ClassifyUrls, force_recrawl : {FALSE},
                     chunk_size : {DefaultChunkSize},
                     freshness_days : {DefaultFreshnessDays}]
    /\ max_depth = DefaultMaxDepth
    /\ max_concurrent = DefaultMaxConcurrent
    /\ RequestEntry
    /\ AuthIdle
    /\ app_context
    /\ store = EmptyStore

ClassifyNext == Classify

\* the dispatch of smart_crawl_url as a function of the request's URL
ClassifySpec == ClassifyInit /\ [][ClassifyNext]_vars

\* a URL that passes the sitemap test and ends in .txt
TxtSitemapUrl == Url(<<"sitemap", ".txt">>, <<>>)

\* a /crawl/smart request for the sitemap, the sitemap that ends in .txt,
\* the text file or the first page arrives; nothing is forced, and the
\* chunk size is one character
DispatchInit ==
    /\ endpoint = "smart"
    /\ request \in [url : RequestUrls \cup {TxtSitemapUrl},
                     force_recrawl : {FALSE}, chunk_size : {1},
                     freshness_days : {DefaultFreshnessDays}]
    /\ max_depth \in IF classify(utils_normalize_url(request.url)) = "webpage"
                     THEN {SmartMaxDepth} ELSE {DefaultMaxDepth}
    /\ max_concurrent = MaxConcurrentBound
    /\ RequestEntry
    /\ AuthIdle

\* the whole of smart_crawl_url on these requests
DispatchSpec == DispatchInit /\ [][SmartNext]_vars

\* nothing but the part followed on its own is active
ServerIdle ==
    /\ start_urls = {}
    /\ max_depth = DefaultMaxDepth
    /\ max_concurrent = DefaultMaxConcurrent
    /\ pc = "idle"
    /\ depth = 0
    /\ visited = {}
    /\ current_urls = {}
    /\ urls_to_crawl = <<>>
    /\ results = <<>>
    /\ ridx = 1
    /\ next_level_urls = {}
    /\ results_all = <<>>
    /\ FetcherIdle
    /\ HandlerIdle

\* the pieces of a URL string
StringTokens == {"page", "q", "?", "#"}

RECURSIVE StringsOf(_)
\* the URL strings of n pieces
StringsOf(n) ==
    IF n = 0 THEN {<<>>}
    ELSE {s \o <<p>> : s \in StringsOf(n - 1), p \in StringTokens}

\* the URL strings of at most MaxUrlLen pieces
UrlStrings == UNION {StringsOf(n) : n \in 0..MaxUrlLen}

\* what precedes the fragment delimiter of a URL string
BeforeFragment(s) ==
    IF \E k \in 1..Len(s) : s[k] = "#"
    THEN SubSeq(s, 1, (CHOOSE k \in 1..Len(s) :
                          s[k] = "#" /\ \A j \in 1..(k - 1) : s[j] # "#") - 1)
    ELSE s

\* normalize_url is called with a URL string and with a string that differs
\* from it in the fragment only
NormInit ==
    /\ n_url \in UrlStrings
    /\ n_sibling \in {s \in UrlStrings : BeforeFragment(s) = BeforeFragment(n_url)}
    /\ n_once = <<>>
    /\ n_sibling_once = <<>>
    /\ n_twice = <<>>
    /\ n_pc = "start"
    /\ ServerIdle
    /\ AuthIdle
    /\ LogsIdle
    /\ RaceIdle

NormNext ==
    \/ NormalizeOnce
    \/ NormalizeTwice

NormSpec == NormInit /\ [][NormNext]_vars

\* the keys an Authorization header carries
Keys == {"secret", "wrong"}

\* the /crawl/smart requests that meet get_api_key
AuthSmartRequests ==
    [url : {SitemapUrl, TxtUrl, Url(PagePath(1), <<>>)}, force_recrawl : {FALSE},
     chunk_size : {1}, freshness_days : {DefaultFreshnessDays}]

\* the request of an endpoint that reads no request body
NoRequest ==
    [url |-> TxtUrl, force_recrawl |-> FALSE, chunk_size |-> DefaultChunkSize,
     freshness_days |-> DefaultFreshnessDays]

\* a request arrives at any endpoint of a server with or without a
\* configured key, carrying no credentials, the configured key or another
\* key; the store is empty
AuthInit ==
    /\ configured_key \in {NoKey, "secret"}
    /\ credentials \in {NoCredentials} \cup Keys
    /\ \/ endpoint = "smart" /\ request \in AuthSmartRequests
       \/ endpoint = "single" /\ request \in SingleRequests
       \/ endpoint = "check_freshness" /\ request \in FreshnessRequests
       \/ endpoint \in {"sources", "query_rag", "health"} /\ request = NoRequest
    /\ auth_pc = IF Protected(endpoint) THEN "pending" ELSE "passed"
    /\ status_code = "none"
    /\ max_depth = IF endpoint = "smart" THEN SmartMaxDepth ELSE DefaultMaxDepth
    /\ max_concurrent = IF endpoint = "smart" THEN 1 ELSE DefaultMaxConcurrent
    /\ RequestEntry
    /\ store = EmptyStore

\* the handlers, called once the dependency has returned
AuthHandlers ==
    /\ auth_pc = "passed"
    /\ \/ ApiNext
       \/ StoreQuery
       \/ Health

AuthNext ==
    \/ AuthReject
    \/ AuthPass
    \/ AuthHandlers

AuthSpec == AuthInit /\ [][AuthNext]_vars

\* the query parameters of GET /logs: limit, minutes, level, endpoint and
\* since, each absent (its default) or given
LogParams ==
    [limit : {0, 1, 2, 100}, minutes : {1, 10, 60},
     level : {"", "all", "INFO", "WARNING", "ERROR"},
     endpoint : {<<>>, <<"crawl">>, <<"/", "health">>},
     since : {NoSince, <<-5>>, <<-20>>}]

\* an authenticated GET /logs arrives
LogsInit ==
    /\ log_params \in LogParams
    /\ log_pc = "start"
    /\ log_response = NoLogResponse
    /\ ServerIdle
    /\ NormIdle
    /\ AuthIdle
    /\ RaceIdle

LogsNext == GetLogs

LogsSpec == LogsInit /\ [][LogsNext]_vars

\* the two ingestion endpoints
RaceKinds == {"single", "smart"}

\* the stores a pair of requests meets: no record of the URL, a stale record
\* or a fresh one
RaceStores ==
    {[EmptyStore EXCEPT ![RaceUrl] = r] :
        r \in {NoRecord, <<Now - StaleAge>>, <<Now - FreshAge>>}}

\* two requests for the same URL are accepted at the same time
RaceInit ==
    /\ r_request \in [1..2 -> [kind : RaceKinds, force_recrawl : BOOLEAN]]
    /\ r_pc = [i \in 1..2 |-> "start"]
    /\ r_store \in RaceStores
    /\ r_fetched = {}
    /\ r_written = <<>>
    /\ ServerIdle
    /\ NormIdle
    /\ AuthIdle
    /\ LogsIdle

RaceNext == \E i \in 1..2 : RaceCheck(i) \/ RaceFetched(i)

RaceSpec == RaceInit /\ [][RaceNext]_vars

\* the chunk sizes SmartCrawlRequest accepts: any integer, zero and the
\* negative ones included
RequestSizes == (-MaxNegSize)..2

\* smart_chunk_markdown is called with a short text and a chunk size a
\* request can carry
AnySizeChunkInit ==
    /\ c_text \in ShortTexts
    /\ c_size \in RequestSizes
    /\ c_start = 0
    /\ c_chunks = <<>>
    /\ c_spans = <<>>
    /\ c_pc = "loop"
    /\ start_urls = {}
    /\ max_depth = DefaultMaxDepth
    /\ max_concurrent = DefaultMaxConcurrent
    /\ pc = "idle"
    /\ depth = 0
    /\ visited = {}
    /\ current_urls = {}
    /\ urls_to_crawl = <<>>
    /\ results = <<>>
    /\ ridx = 1
    /\ next_level_urls = {}
    /\ results_all = <<>>
    /\ FetcherIdle
    /\ endpoint = "none"
    /\ app_context = TRUE
    /\ request = NoRequest
    /\ spc = "idle"
    /\ url = TxtUrl
    /\ crawl_type = ""
    /\ all_results = <<>>
    /\ skipped_fresh_count = 0
    /\ sidx = 1
    /\ total_chunks = 0
    /\ response = NoResponse
    /\ lookups = <<>>
    /\ sitemap_urls = <<>>
    /\ sitemap_fetch = "none"
    /\ store = EmptyStore
    /\ gate_store = EmptyStore
    /\ writes = <<>>
    /\ NormIdle
    /\ AuthIdle
    /\ LogsIdle
    /\ RaceIdle

\* the loop runs on: an iteration that is possible is eventually made
AnySizeChunkSpec == AnySizeChunkInit /\ [][ChunkNext]_vars /\ WF_vars(ChunkNext)

\* ------------------------------------------------------------------ vocabulary of the properties
\* what a URL addresses, whatever its fragment
Resource(u) == [path |-> u.path, query |-> u.query]

TaskIdx == 1..Len(tasks)

\* the recorded answer of the page task i fetches
PageOf(i) == web[normalize_url(tasks[i].url)]

\* a page that was fetched successfully with non-empty content
GoodPage(r) == r.fetched /\ r.success /\ r.markdown # <<>>

\* the resources the good pages among P link to
LinkedFrom(P) ==
    {Resource(h) : h \in UNION {web[q].links : q \in {x \in DOMAIN web :
                                     Resource(x) \in P /\ GoodPage(web[x])}}}

RECURSIVE Reach(_)
\* the resources at most k internal-link hops from a seed, every hop
\* starting at a good page
Reach(k) ==
    IF k < 0 THEN {}
    ELSE IF k = 0 THEN {Resource(u) : u \in start_urls}
    ELSE Reach(k - 1) \cup LinkedFrom(Reach(k - 1))

TaskResources == {Resource(tasks[i].url) : i \in TaskIdx}

\* ------------------------------------------------------------------ properties
\* C1: during one crawl_recursive_internal_links invocation no normalized
\* URL is handed to the fetcher more than once, whatever the seeds and the
\* link graph (cycles, several paths to one URL, links between pages of one
\* level).
C1_NoUrlFetchedTwice ==
    \A i, j \in TaskIdx :
        i # j => Resource(tasks[i].url) # Resource(tasks[j].url)

\* a crawl that ran past a level whose good page links back to a page
\* fetched at the same or an earlier level
C1_Witness ==
    /\ pc = "done"
    /\ \E i, j \in TaskIdx :
         /\ i # j
         /\ tasks[j].level <= tasks[i].level
         /\ tasks[i].level + 1 < max_depth
         /\ GoodPage(PageOf(i))
         /\ \E h \in PageOf(i).links : Resource(h) = Resource(tasks[j].url)

\* C2: when the crawl returns, no normalized URL appears more than once in
\* visited (no two members address the same resource) and no normalized URL
\* appears more than once among the returned page results.
C2_NoDuplicatesAtReturn ==
    pc = "done" =>
        /\ \A u, v \in visited : Resource(u) = Resource(v) => u = v
        /\ \A i, j \in 1..Len(results_all) :
             i # j => Resource(results_all[i].url) # Resource(results_all[j].url)

\* a crawl returned two pages or more from seeds that name one page twice
C2_Witness ==
    /\ pc = "done"
    /\ Len(results_all) >= 2
    /\ \E u, v \in start_urls : u # v /\ Resource(u) = Resource(v)

\* the resources the level d frontier must hold: everything the good pages
\* of level d - 1 link to, less what was fetched at a level below d
Frontier(d) ==
    {Resource(h) : h \in UNION {PageOf(i).links : i \in {k \in TaskIdx :
                        tasks[k].level = d - 1 /\ GoodPage(PageOf(k))}}}
        \ {Resource(tasks[j].url) : j \in {k \in TaskIdx : tasks[k].level < d}}

\* C3: the crawl is level-synchronous: while a fetch is queued or running
\* the crawler is suspended in arun_many for that fetch's level, every fetch
\* of a lower level has finished and is in visited, and the batch in flight
\* is the complete frontier of its level.
C3_LevelSynchronous ==
    /\ \A i \in TaskIdx :
         tasks[i].st # "done" => pc = "fetching" /\ tasks[i].level = depth
    /\ pc = "fetching" =>
         /\ \A j \in TaskIdx :
              tasks[j].level < depth =>
                  tasks[j].st = "done" /\ normalize_url(tasks[j].url) \in visited
         /\ depth > 0 =>
              {Resource(u) : u \in Range(urls_to_crawl)} = Frontier(depth)

\* a level-1 fetch is running after a level 0 of two fetches
C3_Witness ==
    /\ pc = "fetching"
    /\ depth = 1
    /\ Cardinality({i \in TaskIdx : tasks[i].level = 0}) = 2
    /\ \E i \in TaskIdx : tasks[i].level = 1 /\ tasks[i].st = "running"

\* C4: max_depth bounds the traversal: at most max_depth batches are
\* dispatched, and every fetched URL is within max_depth - 1 internal-link
\* hops of a seed, every hop starting at a good page.
C4_DepthBounded ==
    /\ Cardinality({tasks[i].level : i \in TaskIdx}) <= max_depth
    /\ \A i \in TaskIdx :
         /\ tasks[i].level <= max_depth - 1
         /\ Resource(tasks[i].url) \in Reach(tasks[i].level)

\* the crawl returned after max_depth levels with an unfetched link left
C4_Witness ==
    /\ pc = "done"
    /\ max_depth >= 2
    /\ depth = max_depth
    /\ Cardinality({tasks[i].level : i \in TaskIdx}) = max_depth
    /\ \E u \in current_urls : Resource(u) \notin TaskResources

\* C5: at every moment at most max_concurrent fetches are in flight.
C5_ConcurrencyBounded == Cardinality(Running) <= max_concurrent

\* the budget is used up while another fetch of the batch waits
C5_Witness ==
    /\ Cardinality(Running) = max_concurrent
    /\ \E i \in TaskIdx : tasks[i].st = "queued"

\* a task whose fetch failed or returned no content
BadTask(i) == PageOf(i).fetched /\ ~GoodPage(PageOf(i))

ReturnedResources == {Resource(results_all[k].url) : k \in 1..Len(results_all)}

\* C7: at return, a page whose fetch failed or returned empty content is not
\* in the result list, its normalized URL is in visited and it was fetched
\* once, no URL was fetched only because such a page links to it, and every
\* other URL of its frontier and of later levels was still fetched and
\* processed: every good page fetched is returned, and every link of a good
\* page of a level below the last is fetched.
C7_FailureIsolated ==
    pc = "done" =>
        /\ \A i \in TaskIdx :
             BadTask(i) =>
                 /\ Resource(tasks[i].url) \notin ReturnedResources
                 /\ normalize_url(tasks[i].url) \in visited
                 /\ \A j \in TaskIdx : j # i => Resource(tasks[j].url) # Resource(tasks[i].url)
        /\ \A j \in TaskIdx :
             tasks[j].level > 0 =>
                 \E i \in TaskIdx :
                     /\ tasks[i].level = tasks[j].level - 1
                     /\ GoodPage(PageOf(i))
                     /\ \E h \in PageOf(i).links : Resource(h) = Resource(tasks[j].url)
        /\ \A i \in TaskIdx :
             /\ tasks[i].st = "done"
             /\ normalize_url(tasks[i].url) \in visited
             /\ GoodPage(PageOf(i)) =>
                  /\ Resource(tasks[i].url) \in ReturnedResources
                  /\ tasks[i].level + 1 < max_depth =>
                       \A h \in PageOf(i).links : Resource(h) \in TaskResources

\* a level below the last held a failed or empty page that links to a page
\* never fetched, beside a good page that was returned
C7_Witness ==
    /\ pc = "done"
    /\ \E i, j \in TaskIdx :
         /\ BadTask(i)
         /\ tasks[i].level + 1 < max_depth
         /\ \E h \in PageOf(i).links : Resource(h) \notin TaskResources
         /\ tasks[j].level = tasks[i].level
         /\ GoodPage(PageOf(j))
         /\ Resource(tasks[j].url) \in ReturnedResources

\* C8: with max_depth = 0 the crawl returns only seed URLs and follows no
\* link: every URL it fetches or returns is a seed.  (range(0) is empty: the
\* crawl fetches nothing and returns the empty list.)
C8_DepthZeroOnlySeeds ==
    max_depth = 0 =>
        /\ \A i \in TaskIdx :
             Resource(tasks[i].url) \in {Resource(u) : u \in start_urls}
        /\ \A k \in 1..Len(results_all) :
             Resource(results_all[k].url) \in {Resource(u) : u \in start_urls}
        /\ pc = "done" => visited \subseteq {normalize_url(u) : u \in start_urls}

\* a crawl of some seeds with max_depth = 0 has returned
C8_Witness ==
    /\ max_depth = 0
    /\ start_urls # {}
    /\ pc = "done"

\* every page fetched so far is good and no resource lies exactly max_depth
\* hops from a seed
AllWithinDepth ==
    /\ \A i \in TaskIdx : GoodPage(PageOf(i))
    /\ Reach(max_depth) = Reach(max_depth - 1)

\* one seed whose page links to two other pages that link nowhere
SeedWithTwoLeaves ==
    /\ Cardinality(start_urls) = 1
    /\ \E s \in start_urls :
         /\ GoodPage(web[normalize_url(s)])
         /\ LET kids == {Resource(h) : h \in web[normalize_url(s)].links} IN
            /\ Cardinality(kids) = 2
            /\ Resource(s) \notin kids
            /\ \A q \in DOMAIN web :
                 Resource(q) \in kids => GoodPage(web[q]) /\ web[q].links = {}

\* C9: when every fetch succeeds with content and every reachable URL lies
\* fewer than max_depth hops from a seed, the crawl has, at return, fetched
\* exactly the reachable URLs, each once, and returned each; a seed with 2
\* leaf children and max_depth = 2 gives exactly 3 visited URLs.
C9_ExactlyReachable ==
    pc = "done" =>
        /\ AllWithinDepth =>
             /\ TaskResources = Reach(max_depth - 1)
             /\ Len(tasks) = Cardinality(TaskResources)
             /\ {Resource(u) : u \in visited} = Reach(max_depth - 1)
             /\ ReturnedResources = Reach(max_depth - 1)
             /\ Len(results_all) = Cardinality(ReturnedResources)
        /\ SeedWithTwoLeaves /\ max_depth = 2 =>
             /\ Cardinality(visited) = 3
             /\ Len(tasks) = 3
             /\ Len(results_all) = 3

\* the crawl of a seed with two leaf children and max_depth = 2 has returned
C9_Witness ==
    /\ pc = "done"
    /\ max_depth = 2
    /\ SeedWithTwoLeaves
    /\ AllWithinDepth

\* C6: for every link graph, seed set and max_depth the crawl eventually
\* returns, provided every dispatched fetch batch eventually completes.
C6_Terminates == <>(pc = "done")

\* a crawl of a cyclic graph (two good pages that link to each other) with
\* levels to spare has returned
C6_Witness ==
    /\ pc = "done"
    /\ depth < max_depth
    /\ \E i, j \in TaskIdx :
         /\ i # j
         /\ GoodPage(PageOf(i)) /\ GoodPage(PageOf(j))
         /\ \E h \in PageOf(i).links : Resource(h) = Resource(tasks[j].url)
         /\ \E h \in PageOf(j).links : Resource(h) = Resource(tasks[i].url)

\* the store, as the freshness gate of this request saw it, reports u fresh
FreshAtGate(u) == check_url_freshness(gate_store, u, DefaultFreshnessDays).is_fresh

\* C10 as stated: with force_recrawl = false no URL the store reports fresh
\* at decision time is fetched or written, be it a sitemap entry, the text
\* URL or a page discovered by link expansion from a page seed.
C10_FreshNeverFetched ==
    ~request.force_recrawl =>
        /\ \A i \in TaskIdx : tasks[i].st # "queued" => ~FreshAtGate(tasks[i].url)
        /\ \A k \in 1..Len(writes) : ~FreshAtGate(writes[k].url)

\* C10 as amended: with force_recrawl = false no sitemap entry, text URL or
\* page seed URL that the store reports fresh at decision time is fetched
\* or written (pages found by link expansion are not checked).
C10_FreshSeedsNeverFetched ==
    ~request.force_recrawl =>
        /\ \A i \in TaskIdx : tasks[i].level = 0 => ~FreshAtGate(tasks[i].url)
        /\ \A k \in 1..Len(writes) :
             (crawl_type \in {"sitemap", "txt_file"}
                 \/ Resource(writes[k].url) = Resource(url))
                 => ~FreshAtGate(writes[k].url)

\* a sitemap request without force_recrawl returned after it skipped a fresh
\* entry and wrote another
C10_Witness ==
    /\ spc = "returned"
    /\ crawl_type = "sitemap"
    /\ ~request.force_recrawl
    /\ skipped_fresh_count >= 1
    /\ Len(writes) >= 1

\* ------------------------------------------------------------------ properties of the handlers
\* the URLs a request hands to the freshness gate: the first SitemapCap
\* entries of the resolved sitemap, else the URL of the request
GateInput ==
    IF endpoint = "smart" /\ crawl_type = "sitemap"
    THEN SubSeq(sitemap_urls, 1, Min(SitemapCap, Len(sitemap_urls)))
    ELSE <<url>>

\* the handler is past its freshness gate
PastGate ==
    /\ spc \notin {"idle", "start"}
    /\ app_context
    /\ sitemap_fetch # "raised"

\* the fetches of the URLs the handler itself handed to the fetcher
SeedTasks == SelectSeq(tasks, LAMBDA t : t.level = 0)

YoungerThan(u, window) ==
    LET rec == gate_store[utils_normalize_url(u)] IN
    rec # NoRecord /\ Now - rec[1] < window

\* C12: the freshness decision is true exactly when the store holds a
\* last-crawl time for the URL and now - last_crawled is strictly less than
\* the window, 30 days when the caller gives none; no record, or a crawl
\* exactly one window ago or earlier, is stale.
C12_FreshnessDecision ==
    /\ endpoint = "check_freshness" /\ spc = "returned" /\ response.success =>
         (response.is_fresh <=> YoungerThan(request.url, request.freshness_days))
    /\ endpoint = "single" /\ spc = "returned" /\ app_context
           /\ ~request.force_recrawl =>
         (response.was_fresh = <<TRUE>> <=> YoungerThan(request.url, DefaultFreshnessDays))

\* /check-freshness answered stale for a URL crawled exactly one window ago
C12_Witness ==
    /\ endpoint = "check_freshness"
    /\ spc = "returned"
    /\ response.success
    /\ gate_store[url] # NoRecord
    /\ Now - gate_store[url][1] = request.freshness_days
    /\ ~response.is_fresh

\* C13: the freshness gate never mutates the store: after a /check-freshness
\* call, and after the gate step of an ingestion that skips every URL as
\* fresh, the stored documents and their last-crawl times are unchanged.
C13_GateReadOnly ==
    /\ endpoint = "check_freshness" =>
         store = gate_store /\ writes = <<>>
    /\ endpoint = "smart" /\ PastGate /\ ~request.force_recrawl
           /\ GateInput # <<>> /\ skipped_fresh_count = Len(GateInput) =>
         store = gate_store /\ writes = <<>>

\* a text-file ingestion that skipped its URL as fresh has returned
C13_Witness ==
    /\ endpoint = "smart"
    /\ crawl_type = "txt_file"
    /\ spc = "returned"
    /\ skipped_fresh_count = 1
    /\ store[url] # NoRecord

\* C14: for a sitemap whose n <= 50 listed URLs are all fresh and
\* force_recrawl = false, the ingestion fetches no page, writes nothing,
\* and returns pages_crawled = 0 and skipped_fresh_urls = n.
C14_AllFreshSitemap ==
    /\ endpoint = "smart" /\ crawl_type = "sitemap" /\ PastGate
    /\ ~request.force_recrawl
    /\ Len(sitemap_urls) <= SitemapCap
    /\ \A k \in 1..Len(sitemap_urls) : FreshAtGate(sitemap_urls[k])
    => /\ tasks = <<>>
       /\ writes = <<>>
       /\ store = gate_store
       /\ spc = "returned" =>
            /\ response.success
            /\ response.pages_crawled = 0
            /\ response.skipped_fresh_urls = Len(sitemap_urls)

\* the ingestion of a sitemap of 3 fresh entries has returned
C14_Witness ==
    /\ endpoint = "smart"
    /\ crawl_type = "sitemap"
    /\ spc = "returned"
    /\ ~request.force_recrawl
    /\ Len(sitemap_urls) = 3
    /\ \A k \in 1..Len(sitemap_urls) : FreshAtGate(sitemap_urls[k])
    /\ response.skipped_fresh_urls = 3

RECURSIVE SumChunks(_)
\* the chunks of the writes ws, counted
SumChunks(ws) ==
    IF ws = <<>> THEN 0 ELSE Len(Head(ws).chunks) + SumChunks(Tail(ws))

\* C15: in a multi-URL ingestion one store write is issued per crawled page
\* result with non-empty content, in order, and none for any other URL; on
\* a successful return the number of writes equals pages_crawled and
\* chunks_stored is the sum of the chunk counts of the writes.
C15_OneWritePerPage ==
    endpoint = "smart" =>
        /\ Len(writes) <= Len(all_results)
        /\ \A k \in 1..Len(writes) :
             /\ writes[k].url = all_results[k].url
             /\ writes[k].document = all_results[k].markdown
             /\ writes[k].document # <<>>
        /\ spc = "returned" /\ response.success =>
             /\ Len(writes) = response.pages_crawled
             /\ response.pages_crawled = Len(all_results)
             /\ response.chunks_stored = SumChunks(writes)

\* a page ingestion returned two pages written, of two chunks each,
\* beside a page without content that was not written
C15_Witness ==
    /\ endpoint = "smart"
    /\ crawl_type = "webpage"
    /\ spc = "returned"
    /\ response.success
    /\ Len(writes) = 2
    /\ response.chunks_stored = 4
    /\ Len(tasks) > Len(writes)

\* the writes that stored their page
StoredWrites == SelectSeq(writes, LAMBDA w : w.outcome = "stored")

\* a store write of this request failed
WriteFailed == \E k \in 1..Len(writes) : writes[k].outcome # "stored"

\* C16: a store write failure for one URL does not abort the ingestion of
\* the sibling pages of the request: every remaining page result is still
\* chunked and submitted to the store, and the call reports the chunks
\* actually stored.
C16_WriteFailureIsolated ==
    endpoint = "smart" /\ spc = "returned" /\ WriteFailed =>
        /\ Len(writes) = Len(all_results)
        /\ response.chunks_stored = SumChunks(StoredWrites)

\* C17: fetch failures, pages without content and store write failures
\* never surface as success: false: an ingestion call that could start
\* returns success: true with reduced counts.
C17_FailuresAbsorbed ==
    endpoint \in {"smart", "single"} /\ spc = "returned" /\ app_context
        /\ sitemap_fetch # "raised" =>
        response.success

\* C18: the sitemap resolver fails soft: after a connection error, a
\* timeout, a status other than 200 or an unparsable body the resolved list
\* is empty and the ingestion reports crawl_type sitemap with zero pages
\* instead of a failure.
C18_SitemapFailsSoft ==
    endpoint = "smart" /\ spc = "returned" /\ app_context
        /\ sitemap_fetch \in {"raised", "not_200", "unparsable"} =>
        /\ sitemap_urls = <<>>
        /\ response.success
        /\ response.crawl_type = "sitemap"
        /\ response.pages_crawled = 0

C20_OnlyHardFailure ==
    endpoint \in {"smart", "single"} =>
        /\ ~app_context =>
             /\ tasks = <<>>
             /\ lookups = <<>>
             /\ writes = <<>>
             /\ spc = "returned" => ~response.success
        /\ spc = "returned" /\ ~response.success => ~app_context

\* ------------------------------------------------------------------ vocabulary of the chunker properties
\* the iterations of the loop so far
Iterations == 1..Len(c_spans)

SpanStart(k) == c_spans[k][1]
SpanEnd(k) == c_spans[k][2]

\* the characters of the text in the k-th span
SpanText(k) == SubSeq(c_text, SpanStart(k) + 1, SpanEnd(k))

\* the window of the k-th iteration: chunk_size characters from its start
WindowOf(k) == SubSeq(c_text, SpanStart(k) + 1,
                      Min(SpanStart(k) + c_size, Len(c_text)))

\* the k-th iteration chose a break: its window ended inside the text
ChoseBreak(k) == SpanStart(k) + c_size < Len(c_text)

\* the offset in the window of the last marker, if it is past 30% of the
\* chunk size; -1 otherwise
Qualifying(k, marker) ==
    LET at == rfind(WindowOf(k), marker) IN
    IF at # -1 /\ 10 * at > 3 * c_size THEN at ELSE -1

\* the members of a sequence of texts that are not empty
NonEmpty(seq) == SelectSeq(seq, LAMBDA t : t # <<>>)

\* C21: for every document handed to the store, the chunk sequence numbers
\* are exactly 1..N in source order, N being the number of its chunks, and
\* the metadata of each chunk carries chunk_number equal to its sequence
\* number and total_chunks equal to N.
C21_ChunkNumbering ==
    \A j \in 1..Len(writes) :
        LET w == writes[j]
            N == Len(w.chunks) IN
        /\ w.chunks = smart_chunk_markdown(w.document,
               IF endpoint = "smart" THEN request.chunk_size ELSE DefaultChunkSize)
        /\ Len(w.chunk_numbers) = N
        /\ Len(w.metadatas) = N
        /\ \A k \in 1..N :
              /\ w.chunk_numbers[k] = k
              /\ w.metadatas[k].chunk_number = w.chunk_numbers[k]
              /\ w.metadatas[k].total_chunks = N

\* a document of two chunks was written
C21_Witness ==
    \E j \in 1..Len(writes) :
        /\ Len(writes[j].chunks) = 2
        /\ writes[j].chunk_numbers = <<1, 2>>

\* C22: for every text and positive chunk size the chunker never emits an
\* empty chunk, the final remainder of the text included.
C22_NoEmptyChunk == \A k \in 1..Len(c_chunks) : c_chunks[k] # <<>>

\* C23: for a text no longer than the chunk size the chunker returns
\* exactly the stripped text as its one chunk, or no chunk when the text is
\* empty or strips to the empty text.
C23_ShortText ==
    (c_pc = "done" /\ Len(c_text) <= c_size) =>
        c_chunks = IF strip(c_text) = <<>> THEN <<>> ELSE <<strip(c_text)>>

\* C24: the spans [start, end) of the iterations are contiguous, do not
\* overlap and, when the chunker returns, cover the text from its first
\* character to its last in increasing order; the chunks are the stripped
\* spans in that order, a span of whitespace contributing no characters.
C24_SpansPartition ==
    /\ \A k \in Iterations :
          /\ SpanStart(k) = (IF k = 1 THEN 0 ELSE SpanEnd(k - 1))
          /\ SpanStart(k) < SpanEnd(k)
          /\ SpanEnd(k) <= Len(c_text)
    /\ c_pc = "done" =>
          IF c_text = <<>> THEN c_spans = <<>>
          ELSE SpanEnd(Len(c_spans)) = Len(c_text)
    /\ NonEmpty(c_chunks) = NonEmpty([k \in Iterations |-> strip(SpanText(k))])

\* the chunker returned after three iterations or more, and whitespace at
\* the edge of a span was dropped
C24_Witness ==
    /\ c_pc = "done"
    /\ Len(c_spans) >= 3
    /\ Len(c_chunks) >= 2
    /\ \E k \in Iterations :
          /\ strip(SpanText(k)) # <<>>
          /\ strip(SpanText(k)) # SpanText(k)

\* C25: every chunk has at most chunk_size characters.
C25_ChunkWithinSize == \A k \in 1..Len(c_chunks) : Len(c_chunks[k]) <= c_size

\* the chunker returned two chunks or more, one of them of exactly
\* chunk_size characters, for a chunk size of two or more
C25_Witness ==
    /\ c_pc = "done"
    /\ c_size >= 2
    /\ Len(c_chunks) >= 2
    /\ \E k \in 1..Len(c_chunks) : Len(c_chunks[k]) = c_size

\* C26: for a positive chunk size the loop of the chunker terminates: start
\* grows on every iteration that does not reach the end of the text, also
\* when the window begins with a marker.
C26_Terminates ==
    /\ [][(c_pc = "loop" /\ c_pc' = "loop") => c_start' > c_start]_vars
    /\ <>(c_pc = "done")

\* the chunker returned, and one of its iterations chose a break in a window
\* that begins with a code fence, another in a window that begins with a
\* paragraph break
C26_Witness ==
    /\ c_pc = "done"
    /\ \E k \in Iterations :
          /\ ChoseBreak(k)
          /\ rfind(WindowOf(k), Fence) = 0
    /\ \E k \in Iterations :
          /\ ChoseBreak(k)
          /\ rfind(WindowOf(k), ParagraphBreak) = 0

\* C27: when the last code fence of the window lies past 30% of the chunk
\* size the break is at that fence, whatever paragraph and sentence breaks
\* the window holds; when no fence lies past the threshold the paragraph
\* rule is tried next: a last paragraph break past the threshold is the
\* break.
C27_FenceThenParagraph ==
    \A k \in Iterations :
        ChoseBreak(k) =>
            LET fence == Qualifying(k, Fence)
                paragraph == Qualifying(k, ParagraphBreak) IN
            /\ fence # -1 => SpanEnd(k) = SpanStart(k) + fence
            /\ (fence = -1 /\ paragraph # -1) =>
                   SpanEnd(k) = SpanStart(k) + paragraph

\* one iteration broke at a fence though its window held a paragraph break
\* past the threshold as well, and one iteration broke at a paragraph break
\* though the window held a fence before the threshold
C27_Witness ==
    /\ \E k \in Iterations :
          /\ ChoseBreak(k)
          /\ Qualifying(k, Fence) # -1
          /\ Qualifying(k, ParagraphBreak) # -1
          /\ SpanEnd(k) = SpanStart(k) + Qualifying(k, Fence)
    /\ \E k \in Iterations :
          /\ ChoseBreak(k)
          /\ rfind(WindowOf(k), Fence) # -1
          /\ Qualifying(k, Fence) = -1
          /\ SpanEnd(k) = SpanStart(k) + Qualifying(k, ParagraphBreak)

\* C28: when neither a code fence nor a paragraph break past the threshold
\* is available, a paragraph break at or before the threshold included, and
\* the last sentence break lies past the threshold, the break is just after
\* its period; only when no rule qualifies is the full window the chunk.
C28_SentenceFallback ==
    \A k \in Iterations :
        ChoseBreak(k) =>
            LET fence == Qualifying(k, Fence)
                paragraph == Qualifying(k, ParagraphBreak)
                sentence == Qualifying(k, SentenceBreak) IN
            /\ (fence = -1 /\ paragraph = -1 /\ sentence # -1) =>
                   SpanEnd(k) = SpanStart(k) + sentence + 1
            /\ SpanEnd(k) = SpanStart(k) + c_size =>
                   (fence = -1 /\ paragraph = -1 /\ sentence = -1)

\* ------------------------------------------------------------------ vocabulary of the dispatch properties
\* the sitemap rule read on the path of the URL: the path ends in
\* sitemap.xml or contains sitemap
PathNamesSitemap(u) ==
    \/ EndsWith(u.path, <<"sitemap", ".xml">>)
    \/ \E k \in 1..Len(u.path) : u.path[k] = "sitemap"

\* the handler chose its branch
Dispatched ==
    /\ endpoint = "smart"
    /\ app_context
    /\ spc \notin {"idle", "start"}

\* C29: a URL is classified as a sitemap exactly when its path ends in
\* sitemap.xml or contains sitemap; such text in the query string alone
\* does not make the URL a sitemap.
C29_SitemapByPath ==
    spc = "classified" =>
        (crawl_type = "sitemap" <=> PathNamesSitemap(request.url))

\* C30: the classification is total and gives every URL exactly one label,
\* the sitemap test coming first: a URL that passes the sitemap test is
\* handled as a sitemap even if it ends in .txt; a URL that ends in .txt and
\* fails the sitemap test is fetched as one page, with no link expansion;
\* every other URL is crawled by breadth-first link expansion from itself.
C30_DispatchOrder ==
    Dispatched =>
        LET u == utils_normalize_url(request.url) IN
        /\ url = u
        /\ crawl_type \in {"sitemap", "txt_file", "webpage"}
        /\ crawl_type = "sitemap" <=> is_sitemap(u)
        /\ crawl_type = "txt_file" <=> (~is_sitemap(u) /\ is_txt(u))
        /\ crawl_type = "webpage" <=> (~is_sitemap(u) /\ ~is_txt(u))
        /\ crawl_type = "sitemap" =>
              /\ sitemap_fetch # "none"
              /\ pc = "idle"
              /\ \A i \in 1..Len(tasks) :
                    \E k \in 1..Len(sitemap_urls) : tasks[i].url = sitemap_urls[k]
        /\ crawl_type = "txt_file" =>
              /\ sitemap_fetch = "none"
              /\ pc = "idle"
              /\ Len(tasks) <= 1
              /\ \A i \in 1..Len(tasks) : tasks[i].url = u
              /\ Len(all_results) <= 1
        /\ crawl_type = "webpage" =>
              /\ sitemap_fetch = "none"
              /\ start_urls \subseteq {u}
              /\ spc = "crawl_recursive" => (pc # "idle" /\ start_urls = {u})
              /\ \A i \in 1..Len(tasks) :
                    tasks[i].level = 0 => tasks[i].url = normalize_url(u)

\* a request for a URL that passes the sitemap test and ends in .txt was
\* answered as a sitemap whose entries were fetched
C30_Witness ==
    /\ Dispatched
    /\ is_sitemap(url)
    /\ is_txt(url)
    /\ response.success
    /\ response.crawl_type = "sitemap"
    /\ response.pages_crawled >= 1

\* ------------------------------------------------------------------ properties of the remaining parts
\* C31: normalization is idempotent, normalize(normalize(u)) = normalize(u)
\* for every URL u, and two URLs that differ only in their fragment
\* normalize to the same value.
C31_NormalizeIdempotent ==
    /\ n_pc = "twice" => n_twice = n_once
    /\ n_pc \in {"once", "twice"} => n_once = n_sibling_once

\* C32: when an API key is configured, a request to a protected endpoint
\* that carries no Authorization header or an invalid key is answered 401
\* and its handler performs no fetch, no store query and no store write (it
\* is never entered); /health is served without credentials.
C32_AuthBeforeHandler ==
    /\ (configured_key # NoKey /\ Protected(endpoint)
          /\ credentials # configured_key) =>
          /\ auth_pc \in {"pending", "rejected"}
          /\ auth_pc = "rejected" => status_code = "401"
          /\ spc = "start"
          /\ tasks = <<>>
          /\ lookups = <<>>
          /\ writes = <<>>
          /\ store = EmptyStore
          /\ response = NoResponse
    /\ endpoint = "health" =>
          /\ auth_pc = "passed"
          /\ status_code \in {"none", "200"}

\* a request with a key other than the configured one was answered 401
C32_Witness ==
    /\ configured_key # NoKey
    /\ credentials \in Keys
    /\ credentials # configured_key
    /\ endpoint = "smart"
    /\ auth_pc = "rejected"
    /\ status_code = "401"

\* C34: a single-URL ingestion with force_recrawl = false on a URL the store
\* reports fresh performs no fetch and no store write and returns success =
\* true, was_fresh = true, chunks_stored = 0, content_length = 0 and the
\* stored last_crawled timestamp.
C34_FreshSingle ==
    (/\ endpoint = "single"
     /\ app_context
     /\ ~request.force_recrawl
     /\ check_url_freshness(gate_store, request.url, DefaultFreshnessDays).is_fresh) =>
        /\ tasks = <<>>
        /\ writes = <<>>
        /\ store = gate_store
        /\ spc \in {"start", "returned"}
        /\ spc = "returned" =>
              /\ response.success
              /\ response.was_fresh = <<TRUE>>
              /\ response.chunks_stored = 0
              /\ response.content_length = 0
              /\ response.last_crawled # NoRecord
              /\ response.last_crawled = gate_store[utils_normalize_url(request.url)]

\* a single-URL request for a fresh URL was answered from the store
C34_Witness ==
    /\ endpoint = "single"
    /\ ~request.force_recrawl
    /\ spc = "returned"
    /\ response.was_fresh = <<TRUE>>
    /\ response.last_crawled = <<Now - FreshAge>>
    /\ tasks = <<>>

\* C35: for every text and positive chunk size, every span the chunker cuts
\* before the final one is longer than 30% of the chunk size: no break point
\* is accepted at an offset of 30% of the chunk size or less from start.
C35_SpanPastFloor ==
    \A k \in Iterations :
        ChoseBreak(k) => 10 * (SpanEnd(k) - SpanStart(k)) > 3 * c_size

\* an iteration met a marker at exactly 30% of the chunk size in its window,
\* did not break there and cut the full window
C35_Witness ==
    \E k \in Iterations :
        /\ ChoseBreak(k)
        /\ \E marker \in {Fence, ParagraphBreak} :
              LET at == rfind(WindowOf(k), marker) IN
              at # -1 /\ 10 * at = 3 * c_size
        /\ SpanEnd(k) = SpanStart(k) + c_size

C38_WritesAfterCrawl ==
    endpoint = "smart" =>
        /\ spc \notin {"store", "returned"} =>
              /\ writes = <<>>
              /\ store = gate_store
        /\ writes # <<>> =>
              /\ \A i \in TaskIdx : tasks[i].st = "done"
              /\ pc \in {"idle", "done"}
              /\ Len(writes) <= Len(all_results)
        /\ writes = <<>> => store = gate_store

\* the first page of a crawl of two levels or more was written, and the
\* pages of the later levels were all fetched before
C38_Witness ==
    /\ endpoint = "smart"
    /\ spc = "store"
    /\ Len(writes) = 1
    /\ store # gate_store
    /\ Len(all_results) >= 2
    /\ \E i \in TaskIdx : tasks[i].level >= 1

\* C40: for sitemap and text-file ingestions that return success,
\* skipped_fresh_urls plus the number of URLs handed to the fetcher equals
\* the number of capped candidate URLs, and pages_crawled does not exceed
\* the number of URLs handed to the fetcher; for a page seed,
\* skipped_fresh_urls = 1 implies pages_crawled = 0 and chunks_stored = 0.
C40_Accounting ==
    (endpoint = "smart" /\ spc = "returned" /\ response.success) =>
        /\ crawl_type \in {"sitemap", "txt_file"} =>
              /\ response.skipped_fresh_urls + Len(SeedTasks) = Len(GateInput)
              /\ response.pages_crawled <= Len(SeedTasks)
        /\ (crawl_type = "webpage" /\ response.skipped_fresh_urls = 1) =>
              /\ response.pages_crawled = 0
              /\ response.chunks_stored = 0
              /\ tasks = <<>>

\* a sitemap ingestion returned success having skipped one URL and fetched
\* another
C40_Witness ==
    /\ endpoint = "smart"
    /\ spc = "returned"
    /\ response.success
    /\ crawl_type = "sitemap"
    /\ response.skipped_fresh_urls = 1
    /\ Len(SeedTasks) = 1
    /\ Len(GateInput) = 2

\* the resources of the fetches of level d
LevelTasks(d) == {Resource(tasks[i].url) : i \in {k \in TaskIdx : tasks[k].level = d}}

\* the resources exactly d hops from a seed, which no order of arrival enters
LevelSet(d) == Reach(d) \ Reach(d - 1)

\* the place of the result of resource r in the returned list, 0 if absent
ReturnedAt(r) ==
    IF \E k \in 1..Len(results_all) : Resource(results_all[k].url) = r
    THEN CHOOSE k \in 1..Len(results_all) : Resource(results_all[k].url) = r
    ELSE 0

\* C33: the outcome of a crawl does not depend on the order in which the
\* fetcher returns the results of one level: whatever the order, the URLs
\* dispatched at every level are the resources exactly that many hops from
\* a seed, and at return the visited set and the set of returned pages are
\* the reachable resources and the good pages among them.
C33_OrderIndependent ==
    /\ \A i \in TaskIdx : LevelTasks(tasks[i].level) = LevelSet(tasks[i].level)
    /\ pc = "done" =>
          /\ \A d \in 0..MaxDepthBound :
                LevelTasks(d) = IF d < max_depth THEN LevelSet(d) ELSE {}
          /\ {Resource(u) : u \in visited} = Reach(max_depth - 1)
          /\ ReturnedResources =
                {r \in Reach(max_depth - 1) :
                    \E x \in DOMAIN web : Resource(x) = r /\ GoodPage(web[x])}

\* a crawl returned in which two good pages of one level were processed in
\* the reverse of their dispatch order, the one processed first links to
\* the other, and a later level was dispatched
C33_Witness ==
    /\ pc = "done"
    /\ \E i, j \in TaskIdx :
          /\ i < j
          /\ tasks[i].level = tasks[j].level
          /\ GoodPage(PageOf(i))
          /\ GoodPage(PageOf(j))
          /\ ReturnedAt(Resource(tasks[j].url)) < ReturnedAt(Resource(tasks[i].url))
          /\ \E h \in PageOf(j).links : Resource(h) = Resource(tasks[i].url)
          /\ \E k \in TaskIdx : tasks[k].level = tasks[i].level + 1

\* the sample log passes every filter of the request: its timestamp lies
\* within the last `minutes`, its level has at least the priority of the
\* requested level, its endpoint contains the requested text, and its
\* timestamp is strictly after `since`
PassesEveryFilter(log, p) ==
    /\ log.age <= p.minutes
    /\ p.level \notin {"", "all"} =>
          level_priority(log.level) >= level_priority(p.level)
    /\ p.endpoint # <<>> =>
          log.endpoint # <<>> /\ Contains(log.endpoint, p.endpoint)
    /\ p.since # NoSince => -log.age > p.since[1]

\* the entries that pass every filter, newest first, the first `limit` of
\* them
ExpectedLogs(p) ==
    LET passing == SortNewestFirst(SelectSeq(SampleLogs,
                       LAMBDA log : PassesEveryFilter(log, p))) IN
    SubSeq(passing, 1, Min(p.limit, Len(passing)))

\* C36: GET /logs with valid parameters returns success = true and exactly
\* the log entries that pass every filter, sorted newest first and truncated
\* to `limit` entries.
C36_LogsFiltered ==
    log_pc = "returned" =>
        /\ log_response.success
        /\ log_response.logs = ExpectedLogs(log_params)
        /\ log_response.count = Len(log_response.logs)

\* C39: of two concurrent ingestion requests with force_recrawl = false for
\* the same URL, at most one fetches the URL and writes it to the store.
C39_AtMostOneFetch ==
    (\A i \in 1..2 : ~r_request[i].force_recrawl) =>
        Cardinality({i \in r_fetched : i \in Range(r_written)}) <= 1

====
